---- MODULE Spec2Model ----
(***************************************************************************)
(* Acquisition synchronisation and ledger bookkeeping of scripts/substudy.py *)
(* (sync_source, run_backfill, the download_state / download_runs /         *)
(* backfill_state tables and the helpers they call).                        *)
(*                                                                          *)
(* Time is the wall clock in whole seconds (now_utc_iso truncates to the    *)
(* second; every stored timestamp has the same fixed-width UTC format, so   *)
(* the string comparisons of the code are comparisons of these integers).   *)
(* A nullable column is an option: <<>> is NULL, <<v>> is the value v.      *)
(* Video ids are the positions of the items in the remote playlist.         *)
(***************************************************************************)
EXTENDS Integers, Sequences, FiniteSets, TLC

\* ------------------------------------------------------------------ bounds
MaxId == 4
PlaylistEnd == 2
SourceBackfillStart == 1
MaxWindowsPerRun == 2
MaxAnomalies == 2
MaxTicks == 1
MaxRuns == 6
CallSeconds == 1
MaxCandidates == 2
ShortPlaylist == 1

\* ------------------------------------------------------- program constants
BackoffBaseSeconds == 300
BackoffCapSeconds == 86400
InterruptedExitCode == 130

VideoIds == 1 .. MaxId
Stages == <<"media", "subs", "meta">>
StageSet == {"media", "subs", "meta"}
Src == "alpha"
Sources == {"alpha", "beta"}

Null == <<>>
Some(v) == <<v>>
IsNull(x) == x = <<>>
Val(x) == x[1]
\* '' in a timestamp column: it sorts before every timestamp
EmptyStamp == <<-1>>
\* a nullable timestamp column that is NULL or ''
IsBlank(x) == x = Null \/ x = EmptyStamp

Min(a, b) == IF a <= b THEN a ELSE b
Max(a, b) == IF a >= b THEN a ELSE b

RECURSIVE Pow2(_)
Pow2(n) == IF n <= 0 THEN 1 ELSE 2 * Pow2(n - 1)

RECURSIVE SumOver(_, _)
SumOver(f, S) ==
    IF S = {} THEN 0
    ELSE LET x == CHOOSE y \in S : TRUE IN f[x] + SumOver(f, S \ {x})

VARIABLES
    now,            \* wall clock, seconds
    media_archive,  \* [exists, ids]: the media download-archive file
    subs_archive,   \* [exists, ids]: the subtitle download-archive file
    media_files,    \* id -> "none" | "audio" | "silent": file in media_dir
    sub_files,      \* ids with a subtitle file in subs_dir
    meta_files,     \* ids with an .info.json in meta_dir
    download_state, \* table download_state: <<source, stage, id>> -> row
    download_runs,  \* table download_runs: run_id -> row
    backfill_state, \* table backfill_state: source -> row
    videos,         \* table videos: <<source, id>> -> row
    remote_len,     \* length of the remote playlist (environment)
    dependents,     \* rows of video_favorites, subtitle_bookmarks, video_notes
    urls_file,      \* ids whose urls are in the generated url-list file
    pc,             \* position of the running process
    local,          \* local variables of the running invocation
    anomalies       \* environment deviations used so far

vars == <<now, media_archive, subs_archive, media_files, sub_files, meta_files,
          download_state, download_runs, backfill_state, videos, remote_len,
          dependents, urls_file, pc, local, anomalies>>

files == <<media_archive, subs_archive, media_files, sub_files, meta_files>>

\* ---------------------------------------------------------------- helpers
ReadArchiveIds(archive) == IF archive.exists THEN archive.ids ELSE {}

ScanMediaFiles == {v \in VideoIds : media_files[v] # "none"}

ScanSubtitles == sub_files

ListMetaIds == meta_files

FindMediaFileForVideo(mf, v) == mf[v]

WriteArchiveIds(archive, ids) ==
    IF ids = {} THEN archive ELSE [exists |-> TRUE, ids |-> ids]

\* write_urls_file: the file is rewritten with the urls of the targets
WriteUrlsFile(targets) == targets

\* the archive is written from the scan whether or not it exists
BootstrapArchiveAlways(archive, scanned) == WriteArchiveIds(archive, scanned)

BootstrapArchive(archive, scanned) ==
    IF ~archive.exists THEN WriteArchiveIds(archive, scanned) ELSE archive

DelaySecondsFromCount(retry_count) ==
    Min(BackoffBaseSeconds * Pow2(Max(0, retry_count)), BackoffCapSeconds)

DelaySecondsUncapped(retry_count) == BackoffBaseSeconds * Pow2(Max(0, retry_count - 1))

DelaySeconds(retry_count) ==
    Min(BackoffBaseSeconds * Pow2(Max(0, retry_count - 1)), BackoffCapSeconds)

ScheduleNextRetryIso(retry_count, clock) == clock + DelaySeconds(retry_count)

\* --------------------------------------------------------- download_runs
RunIds(runs) == DOMAIN runs

BeginDownloadRun(runs, source_id, stage, target_count, started_at) ==
    Append(runs, [source_id |-> source_id, stage |-> stage, status |-> "running",
                  started_at |-> started_at, target_count |-> target_count,
                  finished_at |-> Null, exit_code |-> Null,
                  success_count |-> Null, failure_count |-> Null,
                  error_message |-> Null])

RecoverRowOverwrite(row, finished_value) ==
    [row EXCEPT !.status = "error",
                !.finished_at = Some(finished_value),
                !.exit_code = IF IsNull(@) THEN Some(InterruptedExitCode) ELSE @,
                !.error_message = Some("interrupted previous run")]

RecoverRow(row, finished_value) ==
    [row EXCEPT !.status = "error",
                !.finished_at = IF IsNull(@) THEN Some(finished_value) ELSE @,
                !.exit_code = IF IsNull(@) THEN Some(InterruptedExitCode) ELSE @,
                !.error_message = IF IsNull(@) \/ @ = Some("")
                                  THEN Some("interrupted previous run") ELSE @]

RecoverMatchesAnyStatus(row, source_id, stage) ==
    row.source_id = source_id /\ row.stage = stage

RecoverMatches(row, source_id, stage) ==
    row.source_id = source_id /\ row.stage = stage /\ row.status = "running"

\* the recovery pass of a stage closes nothing
RecoverInterruptedDownloadRunsNothing(runs, source_id, stage, finished_value) == runs

RecoverInterruptedDownloadRuns(runs, source_id, stage, finished_value) ==
    [r \in DOMAIN runs |->
        IF RecoverMatches(runs[r], source_id, stage)
        THEN RecoverRow(runs[r], finished_value) ELSE runs[r]]

\* the recovery pass closes the interrupted runs of the media stage only
RecoverMediaStageOnly(runs, source_id, finished_value) ==
    RecoverInterruptedDownloadRuns(runs, source_id, "media", finished_value)

RecoverAllStages(runs, source_id, finished_value) ==
    RecoverInterruptedDownloadRuns(
        RecoverInterruptedDownloadRuns(
            RecoverInterruptedDownloadRuns(runs, source_id, "media", finished_value),
            source_id, "subs", finished_value),
        source_id, "meta", finished_value)

\* the run is not finished in the commit of the upserts
FinishDownloadRunLater(runs, run_id, status, finished_at, exit_code, success_count, failure_count, error_message) ==
    runs

FinishDownloadRun(runs, run_id, status, finished_at, exit_code, success_count, failure_count, error_message) ==
    [r \in DOMAIN runs |->
        IF r = run_id
        THEN [runs[r] EXCEPT !.status = status, !.finished_at = Some(finished_at),
                             !.exit_code = Some(exit_code),
                             !.success_count = Some(success_count),
                             !.failure_count = Some(failure_count),
                             !.error_message = error_message]
        ELSE runs[r]]

\* -------------------------------------------------------- download_state
Key(source_id, stage, v) == <<source_id, stage, v>>

HasRow(ds, k) == k \in DOMAIN ds

StoredRetryCount(ds, k) == IF HasRow(ds, k) THEN ds[k].retry_count ELSE 0

Put(f, k, row) == [x \in DOMAIN f \cup {k} |-> IF x = k THEN row ELSE f[x]]

\* the update of an existing row leaves its updated_at as it was
UpsertDownloadStateKeepingUpdatedAt(ds, source_id, stage, v, status, run_id, attempt_at, last_error, retry_count, next_retry_at) ==
    LET k == Key(source_id, stage, v)
        rc == IF IsNull(retry_count) THEN StoredRetryCount(ds, k) ELSE Val(retry_count)
    IN Put(ds, k, [status |-> status, retry_count |-> rc, last_error |-> last_error,
                   last_attempt_at |-> attempt_at, next_retry_at |-> next_retry_at,
                   last_run_id |-> run_id,
                   updated_at |-> IF HasRow(ds, k) THEN ds[k].updated_at ELSE attempt_at])

UpsertDownloadState(ds, source_id, stage, v, status, run_id, attempt_at, last_error, retry_count, next_retry_at) ==
    LET k == Key(source_id, stage, v)
        rc == IF IsNull(retry_count) THEN StoredRetryCount(ds, k) ELSE Val(retry_count)
    IN Put(ds, k, [status |-> status, retry_count |-> rc, last_error |-> last_error,
                   last_attempt_at |-> attempt_at, next_retry_at |-> next_retry_at,
                   last_run_id |-> run_id, updated_at |-> attempt_at])

UpsertSuccessKeepCount(ds, source_id, stage, v, run_id, attempt_at) ==
    UpsertDownloadState(ds, source_id, stage, v, "success", run_id, attempt_at,
                        Null, Null, Null)

UpsertSuccess(ds, source_id, stage, v, run_id, attempt_at) ==
    UpsertDownloadState(ds, source_id, stage, v, "success", run_id, attempt_at,
                        Null, Some(0), Null)

\* a failed item is marked as an error but no retry is scheduled
UpsertFailureNoRetry(ds, source_id, stage, v, run_id, attempt_at, reason, clock) ==
    UpsertDownloadState(ds, source_id, stage, v, "error", run_id, attempt_at,
                        Some(reason), Some(StoredRetryCount(ds, Key(source_id, stage, v)) + 1),
                        Null)

UpsertFailure(ds, source_id, stage, v, run_id, attempt_at, reason, clock) ==
    LET next_retry_count == StoredRetryCount(ds, Key(source_id, stage, v)) + 1
    IN UpsertDownloadState(ds, source_id, stage, v, "error", run_id, attempt_at,
                           Some(reason), Some(next_retry_count),
                           Some(ScheduleNextRetryIso(next_retry_count, clock)))

RECURSIVE UpsertAll(_, _, _, _, _, _, _, _)
UpsertAll(ds, source_id, stage, ok_ids, failed, run_id, attempt_at, clock) ==
    \* failed: id -> reason, for the ids classified as failed
    IF ok_ids = {} /\ DOMAIN failed = {} THEN ds
    ELSE IF ok_ids # {}
    THEN LET v == CHOOSE x \in ok_ids : TRUE
         IN UpsertAll(UpsertSuccess(ds, source_id, stage, v, run_id, attempt_at),
                      source_id, stage, ok_ids \ {v}, failed, run_id, attempt_at, clock)
    ELSE LET v == CHOOSE x \in DOMAIN failed : TRUE
         IN UpsertAll(UpsertFailure(ds, source_id, stage, v, run_id, attempt_at,
                                    failed[v], clock),
                      source_id, stage, ok_ids,
                      [x \in DOMAIN failed \ {v} |-> failed[x]],
                      run_id, attempt_at, clock)

IsDeferredNotStrict(ds, source_id, stage, v, now_value) ==
    LET k == Key(source_id, stage, v)
    IN /\ HasRow(ds, k)
       /\ ds[k].status = "error"
       /\ ~IsBlank(ds[k].next_retry_at)
       /\ Val(ds[k].next_retry_at) >= now_value

IsDeferred(ds, source_id, stage, v, now_value) ==
    LET k == Key(source_id, stage, v)
    IN /\ HasRow(ds, k)
       /\ ds[k].status = "error"
       /\ ~IsBlank(ds[k].next_retry_at)
       /\ ~(Val(ds[k].next_retry_at) <= now_value)

RECURSIVE SplitRetryableIds(_, _, _, _, _)
SplitRetryableIds(ds, source_id, stage, candidate_ids, now_value) ==
    \* candidate_ids is a list; the result keeps its order in both lists
    IF candidate_ids = <<>> THEN [retryable |-> <<>>, deferred |-> <<>>]
    ELSE LET v == Head(candidate_ids)
             rest == SplitRetryableIds(ds, source_id, stage, Tail(candidate_ids), now_value)
         IN IF IsDeferred(ds, source_id, stage, v, now_value)
            THEN [retryable |-> rest.retryable, deferred |-> <<v>> \o rest.deferred]
            ELSE [retryable |-> <<v>> \o rest.retryable, deferred |-> rest.deferred]

\* every candidate is retried, whatever its schedule
RetryableSetIgnoringBackoff(ds, source_id, stage, ids, now_value) == ids

RetryableSet(ds, source_id, stage, ids, now_value) ==
    {v \in ids : ~IsDeferred(ds, source_id, stage, v, now_value)}

GetDueRetryIds(ds, source_id, stage, now_value) ==
    {k[3] : k \in {x \in DOMAIN ds :
        /\ x[1] = source_id /\ x[2] = stage
        /\ ds[x].status = "error"
        /\ (IsBlank(ds[x].next_retry_at) \/ Val(ds[x].next_retry_at) <= now_value)}}

StateStatus(ds, k) == IF HasRow(ds, k) THEN ds[k].status ELSE ""

\* a media failure seen outside the media stage: an unexpired schedule is kept,
\* otherwise the retry count grows and the retry is rescheduled from the clock
MarkMediaRetryState(ds, source_id, v, reason, run_id, attempt_at, clock) ==
    LET k == Key(source_id, "media", v)
        current_status == StateStatus(ds, k)
        current_retry_count == StoredRetryCount(ds, k)
        current_next_retry == IF HasRow(ds, k) /\ ~IsBlank(ds[k].next_retry_at)
                              THEN ds[k].next_retry_at ELSE Null
        keep == /\ current_status = "error"
                /\ ~IsNull(current_next_retry)
                /\ Val(current_next_retry) > attempt_at
        next_retry_count == IF keep THEN current_retry_count ELSE current_retry_count + 1
        next_retry_at == IF keep THEN current_next_retry
                         ELSE Some(ScheduleNextRetryIso(next_retry_count, clock))
    IN UpsertDownloadState(ds, source_id, "media", v, "error", run_id, attempt_at,
                           Some(reason), Some(next_retry_count), next_retry_at)

\* ----------------------------------------------------------------- videos
GetMediaNoAudioBootstrapIds(vs, ds, source_id) ==
    {k[2] : k \in {x \in DOMAIN vs :
        /\ x[1] = source_id
        /\ vs[x].has_media /\ vs[x].media_path
        /\ vs[x].audio_lufs_null /\ vs[x].audio_gain \in {"null", "zero"}
        /\ vs[x].audio_analyzed /\ ~vs[x].audio_error
        /\ StateStatus(ds, Key(source_id, "media", x[2])) # "error"}}

GetSubtitleMissingBootstrapIds(vs, ds, source_id) ==
    {k[2] : k \in {x \in DOMAIN vs :
        /\ x[1] = source_id
        /\ vs[x].has_media /\ vs[x].media_path
        /\ ~vs[x].has_subtitles
        /\ StateStatus(ds, Key(source_id, "subs", x[2])) # "error"}}

ResetAudioColumnsOfSource(vs, source_id, ids) ==
    [k \in DOMAIN vs |->
        IF k[1] = source_id
        THEN [vs[k] EXCEPT !.audio_lufs_null = TRUE, !.audio_gain = "null",
                           !.audio_analyzed = FALSE, !.audio_error = FALSE]
        ELSE vs[k]]

\* sync_source after a successful audio repair: the loudness columns of the
\* repaired ids are set to NULL
ResetAudioColumns(vs, source_id, ids) ==
    [k \in DOMAIN vs |->
        IF k[1] = source_id /\ k[2] \in ids
        THEN [vs[k] EXCEPT !.audio_lufs_null = TRUE, !.audio_gain = "null",
                           !.audio_analyzed = FALSE, !.audio_error = FALSE]
        ELSE vs[k]]

\* the scanned files of one id written to its videos row; the audio columns of
\* an existing row are left alone, a new row has them NULL
UpsertVideoAndSubtitles(vs, source_id, v) ==
    LET k == <<source_id, v>>
        has_media == FindMediaFileForVideo(media_files, v) # "none"
    IN IF k \in DOMAIN vs
       THEN [vs EXCEPT ![k].has_media = has_media, ![k].media_path = has_media,
                       ![k].has_meta = v \in ListMetaIds,
                       ![k].has_subtitles = v \in ScanSubtitles]
       ELSE Put(vs, k, [has_media |-> has_media, media_path |-> has_media,
                        has_meta |-> v \in ListMetaIds,
                        has_subtitles |-> v \in ScanSubtitles,
                        audio_lufs_null |-> TRUE, audio_gain |-> "null",
                        audio_analyzed |-> FALSE, audio_error |-> FALSE])

RECURSIVE UpsertVideos(_, _, _)
UpsertVideos(vs, source_id, ids) ==
    IF ids = {} THEN vs
    ELSE LET v == CHOOSE x \in ids : TRUE
         IN UpsertVideos(UpsertVideoAndSubtitles(vs, source_id, v), source_id, ids \ {v})

PruneSourceVideosNothing(vs, source_id, keep_video_ids) == vs

PruneSourceVideosFullRebuild(vs, source_id, keep_video_ids) ==
    [k \in {x \in DOMAIN vs : x[1] # source_id \/ x[2] \in keep_video_ids} |-> vs[k]]

\* the ids a full rebuild upserts and keeps: the union of the three scans
AllVideoIds == ListMetaIds \cup ScanMediaFiles \cup ScanSubtitles

RebuildSourceFull(vs, source_id) ==
    LET all_video_ids == AllVideoIds
    IN PruneSourceVideosFullRebuild(UpsertVideos(vs, source_id, all_video_ids),
                                    source_id, all_video_ids)

\* the side tables after the prune of a full rebuild
PruneDependentsFullRebuild(deps, source_id, keep_video_ids) ==
    {d \in deps : d[2] # source_id \/ d[3] \in keep_video_ids}

ExistingIds(vs, source_id) == {k[2] : k \in {x \in DOMAIN vs : x[1] = source_id}}

IncrementalCandidateIdsNone(vs, source_id) == {}

\* the subtitles table holds the subtitle files of a row as of its last upsert
IncrementalCandidateIds(vs, source_id) ==
    LET existing_ids == ExistingIds(vs, source_id)
        media_archive_ids == ReadArchiveIds(media_archive)
        subs_archive_ids == ReadArchiveIds(subs_archive)
        missing_from_db_ids == (media_archive_ids \cup subs_archive_ids) \ existing_ids
        no_meta_ids == {v \in existing_ids : ~vs[<<source_id, v>>].has_meta}
                       \cap (media_archive_ids \cup subs_archive_ids)
        media_backfill_ids == {v \in existing_ids : ~vs[<<source_id, v>>].has_media}
                              \cap media_archive_ids
        subtitle_backfill_ids == {v \in existing_ids : ~vs[<<source_id, v>>].has_subtitles}
                                 \cap subs_archive_ids
        subtitle_changed_ids ==
            {v \in ScanSubtitles \cup existing_ids :
                (v \in ScanSubtitles) #
                (v \in existing_ids /\ vs[<<source_id, v>>].has_subtitles)}
    IN missing_from_db_ids \cup no_meta_ids \cup media_backfill_ids
       \cup subtitle_backfill_ids \cup subtitle_changed_ids

RebuildSourceIncremental(vs, source_id) ==
    IF ExistingIds(vs, source_id) = {} THEN RebuildSourceFull(vs, source_id)
    ELSE UpsertVideos(vs, source_id, IncrementalCandidateIds(vs, source_id))

\* build_ledger on the videos table
BuildLedgerVideos(vs, source_id, incremental) ==
    IF incremental THEN RebuildSourceIncremental(vs, source_id)
    ELSE RebuildSourceFull(vs, source_id)

\* build_ledger runs the full rebuild: asked for, or the first import of the source
TakesFullRebuildAlways(vs, source_id, incremental) == TRUE

TakesFullRebuild(vs, source_id, incremental) ==
    ~incremental \/ ExistingIds(vs, source_id) = {}

\* build_ledger on the side tables
BuildLedgerDependents(deps, vs, source_id, incremental) ==
    IF TakesFullRebuild(vs, source_id, incremental)
    THEN PruneDependentsFullRebuild(deps, source_id, AllVideoIds)
    ELSE deps

\* the ids whose videos row build_ledger writes (upsert_video_and_subtitles)
LedgerWrites(vs, source_id, incremental) ==
    IF TakesFullRebuild(vs, source_id, incremental) THEN AllVideoIds
    ELSE IncrementalCandidateIds(vs, source_id)

\* build_ledger on download_state: rows of ids without a videos row are deleted
BuildLedgerDownloadState(ds, vs_after, source_id) ==
    [k \in {x \in DOMAIN ds : x[1] # source_id \/ <<source_id, x[3]>> \in DOMAIN vs_after}
        |-> ds[k]]

\* ------------------------------------------------- audio probe and repair
FallbackFailures(f0) ==
    {"audio fallback command exception", "audio fallback command exit code"}
    \cup (IF f0 = "none" THEN {"media file missing after fallback download"} ELSE {})

RunMediaFallbackDownload(f0) ==
    \* outcomes of one alternate-format re-download of a file in state f0
    {[ok |-> FALSE, file |-> f0, reason |-> r, cost |-> 1] : r \in FallbackFailures(f0)}
    \cup {[ok |-> TRUE, file |-> "audio", reason |-> "", cost |-> 0],
          [ok |-> TRUE, file |-> "silent", reason |-> "", cost |-> 1]}

DetectAudioStream(f) ==
    \* "unknown": ffprobe exited nonzero
    {[has |-> IF f = "audio" THEN "yes" ELSE "no", cost |-> 0],
     [has |-> "unknown", cost |-> 1]}

AudioOk(f, repaired, cost, downloads, probes) ==
    [file |-> f, fail |-> Null, repaired |-> repaired, cost |-> cost, downloads |-> downloads,
     probes |-> probes]

AudioFailed(f, reason, cost, downloads, probes) ==
    [file |-> f, fail |-> Some(reason), repaired |-> FALSE, cost |-> cost,
     downloads |-> downloads, probes |-> probes]

\* a re-probe that returns "unknown" is read as confirmed absent
AfterRepairUnknownIsAbsent(b, p, cost, downloads) ==
    {IF q.has = "yes" THEN AudioOk(b.file, TRUE, cost + q.cost, downloads, <<p.has, q.has>>)
     ELSE AudioFailed(b.file, "audio fallback still has no audio stream",
                      cost + q.cost, downloads, <<p.has, q.has>>)
     : q \in DetectAudioStream(b.file)}

AfterRepair(b, p, cost, downloads) ==
    \* second probe, after the re-download b succeeded
    {IF q.has = "yes" THEN AudioOk(b.file, TRUE, cost + q.cost, downloads, <<p.has, q.has>>)
     ELSE IF q.has = "no"
     THEN AudioFailed(b.file, "audio fallback still has no audio stream",
                      cost + q.cost, downloads, <<p.has, q.has>>)
     ELSE AudioFailed(b.file, "audio fallback ffprobe warning", cost + q.cost, downloads,
                      <<p.has, q.has>>)
     : q \in DetectAudioStream(b.file)}

AfterProbe(f, p, cost, downloads) ==
    IF p.has \in {"yes", "unknown"}
    THEN {AudioOk(f, FALSE, cost + p.cost, downloads, <<p.has>>)}
    ELSE UNION {IF ~b.ok
                THEN {AudioFailed(b.file, b.reason, cost + p.cost + b.cost, downloads + 1,
                                  <<p.has>>)}
                ELSE AfterRepair(b, p, cost + p.cost + b.cost, downloads + 1)
                : b \in RunMediaFallbackDownload(f)}

\* a missing media file fails the item at once, without a re-download
CheckMediaAudioFailMissing(f0) ==
    IF f0 = "none"
    THEN {AudioFailed(f0, "media file missing", 1, 0, <<>>)}
    ELSE UNION {AfterProbe(f0, p, 0, 0) : p \in DetectAudioStream(f0)}

CheckMediaAudio(f0) ==
    \* every outcome of the loop body of the audio check for a file in state f0
    LET first == IF f0 = "none" THEN RunMediaFallbackDownload(f0)
                 ELSE {[ok |-> TRUE, file |-> f0, reason |-> "", cost |-> 0]}
        d0 == IF f0 = "none" THEN 1 ELSE 0
    IN UNION {IF ~a.ok THEN {AudioFailed(a.file, a.reason, a.cost, d0, <<>>)}
              ELSE UNION {AfterProbe(a.file, p, a.cost, d0) : p \in DetectAudioStream(a.file)}
              : a \in first}

\* safe_video_url returns None: no re-download can be issued
CheckMediaAudioNoUrl(f0) ==
    IF f0 = "none"
    THEN {AudioFailed(f0, "cannot build video URL for fallback", 1, 0, <<>>)}
    ELSE {IF p.has \in {"yes", "unknown"} THEN AudioOk(f0, FALSE, p.cost, 0, <<p.has>>)
          ELSE AudioFailed(f0, "cannot build video URL for fallback", 1 + p.cost, 0,
                           <<p.has>>)
          : p \in DetectAudioStream(f0)}

RECURSIVE AudioResultMaps(_, _)
AudioResultMaps(ids, budget) ==
    \* the outcomes of the audio check over ids: id -> outcome, within the budget
    IF ids = {} THEN {[x \in {} |-> 0]}
    ELSE LET v == CHOOSE x \in ids : TRUE
         IN UNION {{[x \in DOMAIN m \cup {v} |-> IF x = v THEN r ELSE m[x]]
                        : m \in AudioResultMaps(ids \ {v}, budget - r.cost)}
                   : r \in {x \in (IF local.url_ok THEN CheckMediaAudio(media_files[v])
                                    ELSE CheckMediaAudioNoUrl(media_files[v]))
                                : x.cost <= budget}}

\* ------------------------------------------------------------ invocation
EmptyFn == [x \in {} |-> 0]

NoArchive == [exists |-> FALSE, ids |-> {}]

\* the downloader is run on a url list as a whole
BatchCallsPerItem(calls, stage, targets) ==
    [calls EXCEPT ![stage] = @ + Cardinality(targets)]

\* one run_command for the whole batch of a stage
BatchCalls(calls, stage, targets) == [calls EXCEPT ![stage] = @ + 1]

BlankLocal ==
    [mode |-> "none", skip_media |-> FALSE, skip_subs |-> FALSE, skip_meta |-> FALSE,
     ffprobe |-> TRUE, candidates |-> Null, lo |-> 1, hi |-> 0,
     media_before |-> {}, media_after |-> {}, new_media_ids |-> {},
     subs_before |-> {}, subs_after |-> {}, targets |-> {},
     media_audio_fallback_failures |-> {}, repaired_media_ids |-> {},
     media_file_before |-> EmptyFn, audio_check |-> EmptyFn,
     batch_calls |-> [st \in StageSet |-> 0],
     url_ok |-> TRUE, dry_run |-> FALSE,
     bootstrapped_media |-> {}, bootstrapped_subs |-> {},
     run_id |-> Null, started_at |-> 0, exit_code |-> 0, cmd_error |-> FALSE,
     result |-> "none", stage |-> "none",
     skip_ledger |-> FALSE, full_ledger |-> FALSE,
     next_start |-> 0, window_size |-> 0, window_index |-> 0, windows_per_run |-> 0,
     seen_count |-> Null, any_work |-> FALSE, pending |-> Null, reset |-> FALSE,
     ledger_writes |-> {}, ledger_pruned |-> {}, ledger_pruned_deps |-> {},
     previous |-> "none",
     split_in |-> <<>>, split_now |-> 0, split_out |-> Null,
     due_limit |-> 0, due_out |-> Null]

Init ==
    /\ now = 0
    /\ media_archive = NoArchive
    /\ subs_archive = NoArchive
    /\ media_files = [v \in VideoIds |-> "none"]
    /\ sub_files = {}
    /\ meta_files = {}
    /\ download_state = EmptyFn
    /\ download_runs = <<>>
    /\ backfill_state = EmptyFn
    /\ videos = EmptyFn
    /\ remote_len = MaxId
    /\ dependents = {}
    /\ urls_file = {}
    /\ pc = "idle"
    /\ local = BlankLocal
    /\ anomalies = 0

Bit(b) == IF b THEN 1 ELSE 0

\* a playlist of at most ShortPlaylist items affords one more deviation
AnomalyBudget == MaxAnomalies + Bit(remote_len <= ShortPlaylist)

Spend(cost) ==
    /\ anomalies + cost <= AnomalyBudget
    /\ anomalies' = anomalies + cost

\* --skip-ledger, --full-ledger, or the default incremental ledger build
LedgerModes == {"incremental", "full", "skip"}

\* every flag off its default and a missing ffprobe count as deviations
OptionCost(skip_media, skip_subs, skip_meta, ffprobe, ledger) ==
    Bit(skip_media) + Bit(skip_subs) + Bit(skip_meta) + Bit(~ffprobe)
    + Bit(ledger # "incremental")

\* the locals of a command started with the given flags
Options(mode, skip_media, skip_subs, skip_meta, ffprobe, ledger) ==
    [BlankLocal EXCEPT !.mode = mode, !.skip_media = skip_media,
                       !.skip_subs = skip_subs, !.skip_meta = skip_meta,
                       !.ffprobe = ffprobe, !.skip_ledger = (ledger = "skip"),
                       !.full_ledger = (ledger = "full")]

\* the table backfill_state as the connection of the process sees it: the row
\* written by ensure_backfill_state is pending until the next commit
\* the first commit of the window already moves the cursor past the window
PendingBsAdvancedEarly ==
    LET bs == IF IsNull(local.pending) THEN backfill_state ELSE Val(local.pending)
    IN IF local.mode = "backfill" /\ Src \in DOMAIN bs
       THEN [bs EXCEPT ![Src].next_start = local.next_start + local.window_size]
       ELSE bs

PendingBs == IF IsNull(local.pending) THEN backfill_state ELSE Val(local.pending)

\* sync_source up to the first checkpoint: archive bootstrap, crash recovery
\* of the three stages (committed if a row was recovered), snapshot of the
\* media archive
SyncEnter(base, cost, clock, candidates, lo, hi) ==
    /\ Len(download_runs) + 3 <= MaxRuns
    /\ Spend(cost)
    /\ media_archive' = BootstrapArchive(media_archive, ScanMediaFiles)
    /\ subs_archive' = BootstrapArchive(subs_archive, ScanSubtitles)
    /\ download_runs' = RecoverAllStages(download_runs, Src, clock)
    /\ LET recovered_any == \E r \in DOMAIN download_runs, stage \in StageSet :
                                RecoverMatches(download_runs[r], Src, stage)
       IN /\ backfill_state' = IF recovered_any /\ ~IsNull(base.pending)
                               THEN Val(base.pending) ELSE backfill_state
          /\ local' = [base EXCEPT !.candidates = candidates, !.lo = lo, !.hi = hi,
                             !.pending = IF recovered_any THEN Null ELSE @,
                             !.media_before = ReadArchiveIds(media_archive'),
                             !.media_after = {}, !.new_media_ids = {},
                             !.subs_before = {}, !.subs_after = {}, !.targets = {},
                             !.media_audio_fallback_failures = {},
                             !.repaired_media_ids = {},
                             !.media_file_before = EmptyFn, !.audio_check = EmptyFn,
                             !.batch_calls = [st \in StageSet |-> 0],
                             !.bootstrapped_media =
                                 IF media_archive.exists THEN {} ELSE ScanMediaFiles,
                             !.bootstrapped_subs =
                                 IF subs_archive.exists THEN {} ELSE ScanSubtitles,
                             !.run_id = Null, !.started_at = 0, !.exit_code = 0,
                             !.cmd_error = FALSE,
                             !.result = "running", !.stage = "none"]
    /\ pc' = "media_start"
    /\ UNCHANGED <<media_files, sub_files, meta_files, download_state, videos,
                   remote_len, dependents, urls_file>>

\* main(): the sync command on the source
SyncStart ==
    /\ pc = "idle"
    /\ \E skip_media, skip_subs, skip_meta, ffprobe \in BOOLEAN, ledger \in LedgerModes :
          SyncEnter(Options("sync", skip_media, skip_subs, skip_meta, ffprobe, ledger),
                    OptionCost(skip_media, skip_subs, skip_meta, ffprobe, ledger),
                    now, Null, 1, PlaylistEnd)
    /\ UNCHANGED now

MediaSkip ==
    /\ pc = "media_start"
    /\ local.skip_media
    /\ pc' = "subs_start"
    /\ UNCHANGED <<now, files, download_state, download_runs, backfill_state, videos,
                   remote_len, dependents, urls_file, local, anomalies>>

MediaBegin ==
    /\ pc = "media_start"
    /\ backfill_state' = PendingBs
    /\ ~local.skip_media
    /\ download_runs' = BeginDownloadRun(download_runs, Src, "media", Null, now)
    /\ local' = [local EXCEPT !.pending = Null, !.run_id = Some(Len(download_runs) + 1),
                              !.started_at = now, !.stage = "media"]
    /\ pc' = "media_call"
    /\ UNCHANGED <<now, files, download_state, videos, remote_len, dependents, urls_file,
                   anomalies>>

\* the batch downloader on the playlist range: fetches items not yet archived
MediaCandidates == {v \in local.lo .. local.hi : v <= remote_len} \ ReadArchiveIds(media_archive)

MediaCall ==
    /\ pc = "media_call"
    /\ \/ /\ Spend(1)      \* the command could not be run: exception
          /\ local' = [local EXCEPT !.batch_calls = BatchCalls(@, "media", MediaCandidates),
                                    !.exit_code = 1, !.cmd_error = TRUE]
          /\ UNCHANGED <<media_archive, media_files>>
       \/ \E o \in [MediaCandidates -> {"skip", "audio", "silent"}], code \in {0, 1} :
             LET fetched == {v \in MediaCandidates : o[v] # "skip"}
             IN /\ Spend(Cardinality({v \in MediaCandidates : o[v] # "audio"}) + code)
                /\ media_archive' = IF fetched = {} THEN media_archive
                                    ELSE [exists |-> TRUE,
                                          ids |-> ReadArchiveIds(media_archive) \cup fetched]
                /\ media_files' = [v \in VideoIds |->
                                     IF v \in fetched /\ media_files[v] = "none"
                                     THEN o[v] ELSE media_files[v]]
                /\ local' = [local EXCEPT
                                !.batch_calls = BatchCalls(@, "media", MediaCandidates),
                                !.exit_code = code, !.cmd_error = FALSE]
    /\ pc' = "media_check"
    /\ now' = now + CallSeconds
    /\ UNCHANGED <<subs_archive, sub_files, meta_files, download_state,
                   download_runs, backfill_state, videos, remote_len, dependents, urls_file>>

MediaStageError(exit_code, cmd_error, failed_count) ==
    IF cmd_error THEN Some("command exception")
    ELSE IF exit_code = 0 /\ failed_count = 0 THEN Null
    ELSE IF exit_code # 0 THEN Some("command exit code")
    ELSE Some("some media files have no audio after fallback")

MediaRunStatus(exit_code, failed_count) ==
    IF exit_code = 0 /\ failed_count = 0 THEN "success" ELSE "error"

\* every evaluated id is counted as a success
MediaSuccessCountAll(evaluated, failed_count) == Cardinality(evaluated)

\* media_success_count: the evaluated ids that are not fallback failures
MediaSuccessCount(evaluated, failed_count) == Cardinality(evaluated) - failed_count

\* an id is evaluated if it is new in the archive or was probed
MediaEvaluatedIdsProbedOnly(new_media_ids, probed) == probed

MediaEvaluatedIds(new_media_ids, probed) == new_media_ids \cup probed

\* after the call: new ids, due retries and bootstrap ids are probed and
\* repaired, every evaluated id is upserted, the run is finished (one commit)
MediaCheck ==
    /\ pc = "media_check"
    /\ backfill_state' = PendingBs
    /\ LET media_after == ReadArchiveIds(media_archive)
           new_media_ids == media_after \ local.media_before
           retry_media_ids == GetDueRetryIds(download_state, Src, "media", now)
           bootstrap_ids == GetMediaNoAudioBootstrapIds(videos, download_state, Src)
           target_ids == new_media_ids \cup retry_media_ids \cup bootstrap_ids
           probed == IF local.ffprobe THEN target_ids ELSE {}
           evaluated == MediaEvaluatedIds(new_media_ids, probed)
       IN \E res \in AudioResultMaps(probed, AnomalyBudget - anomalies) :
             LET failures == {v \in probed : ~IsNull(res[v].fail)}
                 failed == [v \in failures |-> Val(res[v].fail)]
                 repaired == {v \in probed : res[v].repaired}
                 cost == SumOver([v \in probed |-> res[v].cost], probed)
                 failed_count == Cardinality(failures)
             IN
                /\ Spend(cost)
                /\ media_files' = [v \in VideoIds |->
                                     IF v \in probed THEN res[v].file ELSE media_files[v]]
                /\ download_state' = UpsertAll(download_state, Src, "media",
                                               evaluated \ failures, failed,
                                               local.run_id, local.started_at, now)
                /\ videos' = ResetAudioColumns(videos, Src, repaired)
                /\ download_runs' = FinishDownloadRun(
                        download_runs, Val(local.run_id),
                        MediaRunStatus(local.exit_code, failed_count), now,
                        local.exit_code, MediaSuccessCount(evaluated, failed_count),
                        failed_count,
                        MediaStageError(local.exit_code, local.cmd_error, failed_count))
                /\ local' = [local EXCEPT !.pending = Null, !.media_after = media_after,
                                          !.new_media_ids = new_media_ids,
                                          !.targets = evaluated,
                                          !.media_audio_fallback_failures = failures,
                                          !.repaired_media_ids = repaired,
                                          !.media_file_before =
                                              [v \in probed |-> media_files[v]],
                                          !.audio_check =
                                              [v \in probed |->
                                                  [downloads |-> res[v].downloads,
                                                   probes |-> res[v].probes]]]
    /\ pc' = "subs_start"
    /\ UNCHANGED <<now, media_archive, subs_archive, sub_files, meta_files,
                   remote_len, dependents, urls_file>>

\* sync_source returns to its caller: run_backfill, or main() and its ledger build
ReturnPc ==
    IF local.mode = "backfill" THEN "bf_update"
    ELSE IF local.skip_ledger THEN "idle" ELSE "ledger"

ClassifyBatchByExitCode(targets, evidence, exit_code, cmd_error, missing_reason) ==
    [success |-> IF exit_code # 0 THEN {} ELSE {v \in targets : v \in evidence},
     failed |-> IF exit_code # 0 THEN targets ELSE {v \in targets : v \notin evidence},
     reason |-> IF cmd_error THEN "command exception"
                ELSE IF exit_code # 0 THEN "command exit code"
                ELSE missing_reason]

\* evidence-based classification of a batch: a target is a success iff it is
\* in the evidence set; the reason of the failures depends on the call's end
ClassifyBatch(targets, evidence, exit_code, cmd_error, missing_reason) ==
    [success |-> {v \in targets : v \in evidence},
     failed |-> {v \in targets : v \notin evidence},
     reason |-> IF cmd_error THEN "command exception"
                ELSE IF exit_code # 0 THEN "command exit code"
                ELSE missing_reason]

BatchRunStatus(failed) == IF failed = {} THEN "success" ELSE "error"

BatchRunErrorOnExitOnly(failed, exit_code, cmd_error, still_missing) ==
    IF failed = {} \/ exit_code = 0 THEN Null
    ELSE IF cmd_error THEN Some("command exception")
    ELSE Some("command exit code")

BatchRunError(failed, exit_code, cmd_error, still_missing) ==
    IF failed = {} THEN Null
    ELSE IF cmd_error THEN Some("command exception")
    ELSE IF exit_code # 0 THEN Some("command exit code")
    ELSE Some(still_missing)

CandidateIds(dflt) == IF IsNull(local.candidates) THEN dflt ELSE Val(local.candidates)

SubtitleTargetIds ==
    LET bootstrap_ids == GetSubtitleMissingBootstrapIds(videos, download_state, Src)
        candidate_ids == CandidateIds(local.new_media_ids) \cup bootstrap_ids
        missing == {v \in candidate_ids :
                        v \notin ReadArchiveIds(subs_archive) /\ v \notin ScanSubtitles}
    IN RetryableSet(download_state, Src, "subs", missing, now)
       \cup GetDueRetryIds(download_state, Src, "subs", now)

SubsSkip ==
    /\ pc = "subs_start"
    /\ local.skip_subs
    /\ local' = [local EXCEPT !.subs_before = ReadArchiveIds(subs_archive)]
    /\ pc' = "meta_start"
    /\ UNCHANGED <<now, files, download_state, download_runs, backfill_state, videos,
                   remote_len, dependents, urls_file, anomalies>>

\* no subtitle target: a zero-target run is begun and finished in one commit
SubsNoTargets ==
    /\ pc = "subs_start"
    /\ backfill_state' = PendingBs
    /\ ~local.skip_subs
    /\ SubtitleTargetIds = {}
    /\ download_runs' = FinishDownloadRun(
            BeginDownloadRun(download_runs, Src, "subs", Some(0), now),
            Len(download_runs) + 1, "success", now, 0, 0, 0, Null)
    /\ local' = [local EXCEPT !.pending = Null, !.subs_before = ReadArchiveIds(subs_archive),
                              !.subs_after = ReadArchiveIds(subs_archive),
                              !.targets = {}, !.stage = "subs",
                              !.run_id = Some(Len(download_runs) + 1),
                              !.started_at = now, !.exit_code = 0, !.cmd_error = FALSE]
    /\ pc' = "meta_start"
    /\ UNCHANGED <<now, files, download_state, videos, remote_len, dependents, urls_file,
                   anomalies>>

SubsBegin ==
    /\ pc = "subs_start"
    /\ backfill_state' = PendingBs
    /\ ~local.skip_subs
    /\ SubtitleTargetIds # {}
    /\ local.url_ok
    /\ download_runs' = BeginDownloadRun(download_runs, Src, "subs",
                                         Some(Cardinality(SubtitleTargetIds)), now)
    /\ local' = [local EXCEPT !.pending = Null, !.subs_before = ReadArchiveIds(subs_archive),
                              !.targets = SubtitleTargetIds, !.stage = "subs",
                              !.run_id = Some(Len(download_runs) + 1),
                              !.started_at = now]
    /\ urls_file' = WriteUrlsFile(SubtitleTargetIds)
    /\ pc' = "subs_call"
    /\ UNCHANGED <<now, files, download_state, videos, remote_len, dependents,
                   anomalies>>

\* the batch downloader on the url list of the subtitle targets
SubsCall ==
    /\ pc = "subs_call"
    /\ \/ /\ Spend(1)
          /\ local' = [local EXCEPT !.batch_calls = BatchCalls(@, "subs", local.targets),
                                    !.exit_code = 1, !.cmd_error = TRUE]
          /\ UNCHANGED <<subs_archive, sub_files>>
       \/ \E o \in [local.targets -> {"none", "archive", "file", "both"}], code \in {0, 1} :
             LET archived == {v \in local.targets : o[v] \in {"archive", "both"}}
                 written == {v \in local.targets : o[v] \in {"file", "both"}}
             IN /\ Spend(Cardinality({v \in local.targets : o[v] # "both"}) + code)
                /\ subs_archive' = IF archived = {} THEN subs_archive
                                   ELSE [exists |-> TRUE,
                                         ids |-> ReadArchiveIds(subs_archive) \cup archived]
                /\ sub_files' = sub_files \cup written
                /\ local' = [local EXCEPT !.batch_calls = BatchCalls(@, "subs", local.targets),
                                    !.exit_code = code, !.cmd_error = FALSE]
    /\ pc' = "subs_classify"
    /\ now' = now + CallSeconds
    /\ UNCHANGED <<media_archive, media_files, meta_files, download_state,
                   download_runs, backfill_state, videos, remote_len, dependents, urls_file>>

SubsClassify ==
    /\ pc = "subs_classify"
    /\ backfill_state' = PendingBs
    /\ LET subs_after_ids == ReadArchiveIds(subs_archive)
           c == ClassifyBatch(local.targets, subs_after_ids \cup ScanSubtitles,
                              local.exit_code, local.cmd_error,
                              "subtitle file missing after download attempt")
       IN /\ download_state' = UpsertAll(download_state, Src, "subs", c.success,
                                         [v \in c.failed |-> c.reason],
                                         local.run_id, local.started_at, now)
          /\ download_runs' = FinishDownloadRun(
                  download_runs, Val(local.run_id), BatchRunStatus(c.failed), now,
                  local.exit_code, Cardinality(c.success), Cardinality(c.failed),
                  BatchRunError(c.failed, local.exit_code, local.cmd_error,
                                "some subtitle items are still missing"))
          /\ local' = [local EXCEPT !.pending = Null, !.subs_after = subs_after_ids]
    /\ pc' = "meta_start"
    /\ UNCHANGED <<now, files, videos, remote_len, dependents, urls_file, anomalies>>

MetadataArchiveIds ==
    CandidateIds(ReadArchiveIds(media_archive) \cup ReadArchiveIds(subs_archive)
                 \cup ScanMediaFiles \cup ScanSubtitles)

MetadataTargetIds ==
    LET missing_ids == {v \in MetadataArchiveIds : v \notin ListMetaIds}
    IN RetryableSet(download_state, Src, "meta", missing_ids, now)
       \cup GetDueRetryIds(download_state, Src, "meta", now)

\* the metadata stage records a zero-target success run when it has no target
MetaNothingRecordsRun ==
    /\ pc = "meta_start"
    /\ local.skip_meta \/ MetadataArchiveIds = {} \/ MetadataTargetIds = {}
    /\ download_runs' = IF local.skip_meta THEN download_runs
                        ELSE FinishDownloadRun(
                                BeginDownloadRun(download_runs, Src, "meta", Some(0), now),
                                Len(download_runs) + 1, "success", now, 0, 0, 0, Null)
    /\ local' = [local EXCEPT !.result = "returned"]
    /\ pc' = ReturnPc
    /\ UNCHANGED <<now, files, download_state, backfill_state, videos,
                   remote_len, dependents, urls_file, anomalies>>

\* skip_meta, no archived id, or no target: sync_source returns without a run
MetaNothing ==
    /\ pc = "meta_start"
    /\ local.skip_meta \/ MetadataArchiveIds = {} \/ MetadataTargetIds = {}
    /\ local' = [local EXCEPT !.result = "returned"]
    /\ pc' = ReturnPc
    /\ UNCHANGED <<now, files, download_state, download_runs, backfill_state, videos,
                   remote_len, dependents, urls_file, anomalies>>

MetaBegin ==
    /\ pc = "meta_start"
    /\ backfill_state' = PendingBs
    /\ ~local.skip_meta
    /\ MetadataArchiveIds # {}
    /\ MetadataTargetIds # {}
    /\ local.url_ok
    /\ download_runs' = BeginDownloadRun(download_runs, Src, "meta",
                                         Some(Cardinality(MetadataTargetIds)), now)
    /\ local' = [local EXCEPT !.pending = Null, !.targets = MetadataTargetIds, !.stage = "meta",
                              !.run_id = Some(Len(download_runs) + 1),
                              !.started_at = now]
    /\ urls_file' = WriteUrlsFile(MetadataTargetIds)
    /\ pc' = "meta_call"
    /\ UNCHANGED <<now, files, download_state, videos, remote_len, dependents,
                   anomalies>>

MetaCall ==
    /\ pc = "meta_call"
    /\ \/ /\ Spend(1)
          /\ local' = [local EXCEPT !.batch_calls = BatchCalls(@, "meta", local.targets),
                                    !.exit_code = 1, !.cmd_error = TRUE]
          /\ UNCHANGED meta_files
       \/ \E written \in SUBSET local.targets, code \in {0, 1} :
             /\ Spend(Cardinality(local.targets \ written) + code)
             /\ meta_files' = meta_files \cup written
             /\ local' = [local EXCEPT !.batch_calls = BatchCalls(@, "meta", local.targets),
                                    !.exit_code = code, !.cmd_error = FALSE]
    /\ pc' = "meta_classify"
    /\ now' = now + CallSeconds
    /\ UNCHANGED <<media_archive, subs_archive, media_files, sub_files,
                   download_state, download_runs, backfill_state, videos, remote_len, dependents, urls_file>>

MetaClassify ==
    /\ pc = "meta_classify"
    /\ backfill_state' = PendingBs
    /\ LET c == ClassifyBatch(local.targets, ListMetaIds, local.exit_code,
                              local.cmd_error,
                              "metadata file missing after download attempt")
       IN /\ download_state' = UpsertAll(download_state, Src, "meta", c.success,
                                         [v \in c.failed |-> c.reason],
                                         local.run_id, local.started_at, now)
          /\ download_runs' = FinishDownloadRun(
                  download_runs, Val(local.run_id), BatchRunStatus(c.failed), now,
                  local.exit_code, Cardinality(c.success), Cardinality(c.failed),
                  BatchRunError(c.failed, local.exit_code, local.cmd_error,
                                "some metadata items are still missing"))
    /\ local' = [local EXCEPT !.pending = Null, !.result = "returned"]
    /\ pc' = ReturnPc
    /\ UNCHANGED <<now, files, videos, remote_len, dependents, urls_file, anomalies>>

\* what one build_ledger did, kept with the locals: the rows it wrote, the
\* CatalogItems and the side-table rows it removed
LedgerOutcome(loc, vs, deps, source_id, incremental) ==
    [loc EXCEPT !.result = "ledgered",
                !.ledger_writes = LedgerWrites(vs, source_id, incremental),
                !.ledger_pruned = ExistingIds(vs, source_id)
                    \ ExistingIds(BuildLedgerVideos(vs, source_id, incremental), source_id),
                !.ledger_pruned_deps =
                    deps \ BuildLedgerDependents(deps, vs, source_id, incremental)]

\* main() / run_backfill: build_ledger after the synchronisation, one transaction
LedgerBuild ==
    /\ pc = "ledger"
    /\ videos' = BuildLedgerVideos(videos, Src, ~local.full_ledger)
    /\ download_state' = BuildLedgerDownloadState(download_state, videos', Src)
    /\ dependents' = BuildLedgerDependents(dependents, videos, Src, ~local.full_ledger)
    /\ local' = LedgerOutcome(local, videos, dependents, Src, ~local.full_ledger)
    /\ pc' = "idle"
    /\ UNCHANGED <<now, files, download_runs, backfill_state, remote_len, urls_file,
                   anomalies>>

\* ---------------------------------------------------------------- loudness
LoudnessQueue(vs, source_id) ==
    {k[2] : k \in {x \in DOMAIN vs :
        /\ x[1] = source_id
        /\ vs[x].has_media /\ vs[x].media_path
        /\ (~vs[x].audio_analyzed \/ vs[x].audio_gain = "null")}}

SetAudioColumns(vs, k, lufs_null, gain, error) ==
    [vs EXCEPT ![k].audio_lufs_null = lufs_null, ![k].audio_gain = gain,
               ![k].audio_analyzed = TRUE, ![k].audio_error = error]

\* run_loudness --limit 1: one queued row is analysed and committed
RunLoudness ==
    /\ pc = "idle"
    /\ \E v \in LoudnessQueue(videos, Src), has_ffprobe \in BOOLEAN :
          LET k == <<Src, v>>
              f == FindMediaFileForVideo(media_files, v)
          IN IF f = "none"
             THEN /\ Spend(Bit(~has_ffprobe))
                  /\ videos' = SetAudioColumns(videos, k, TRUE, "null", TRUE)
                  /\ download_state' = MarkMediaRetryState(
                         download_state, Src, v,
                         "media file missing during loudness analysis", Null, now, now)
             ELSE \E p \in (IF has_ffprobe THEN DetectAudioStream(f)
                           ELSE {[has |-> "unknown", cost |-> 1]}) :
                     IF p.has = "no"
                     THEN /\ Spend(p.cost)
                          /\ videos' = SetAudioColumns(videos, k, TRUE, "zero", FALSE)
                          /\ download_state' = MarkMediaRetryState(
                                 download_state, Src, v,
                                 "no audio stream detected during loudness analysis",
                                 Null, now, now)
                     ELSE \E analysed \in BOOLEAN :
                             /\ Spend(p.cost + Bit(analysed # (f = "audio")))
                             /\ videos' = IF analysed
                                          THEN SetAudioColumns(videos, k, FALSE, "set", FALSE)
                                          ELSE SetAudioColumns(videos, k, TRUE, "null", TRUE)
                             /\ UNCHANGED download_state
    /\ local' = [BlankLocal EXCEPT !.mode = "loudness", !.result = "analysed"]
    /\ UNCHANGED <<now, files, download_runs, backfill_state, remote_len, dependents, urls_file, pc>>

\* ---------------------------------------------------------------- backfill
\* the source is configured with backfill_start
ConfigBackfillStart == Some(SourceBackfillStart)

\* backfill_window is not configured: it defaults to playlist_end
BackfillWindow == PlaylistEnd

GetDefaultBackfillStart ==
    IF ~IsNull(ConfigBackfillStart) THEN Val(ConfigBackfillStart) ELSE PlaylistEnd + 1

NewBackfillRow(clock) ==
    [status |-> "active", next_start |-> GetDefaultBackfillStart,
     window_size |-> Max(1, BackfillWindow),
     last_window_start |-> Null, last_window_end |-> Null,
     last_seen_count |-> Null, last_run_at |-> Null,
     completed_at |-> Null, updated_at |-> clock]

EnsureBackfillStateAlwaysReset(bs, source_id, reset, clock) ==
    Put(bs, source_id, NewBackfillRow(clock))

\* the upsert of an existing row also sets its status back to active
EnsureBackfillStateReactivating(bs, source_id, reset, clock) ==
    IF source_id \in DOMAIN bs /\ ~reset
    THEN [bs EXCEPT ![source_id].status = "active",
                    ![source_id].window_size = Max(1, BackfillWindow),
                    ![source_id].updated_at = clock]
    ELSE Put([k \in DOMAIN bs \ {source_id} |-> bs[k]], source_id, NewBackfillRow(clock))

EnsureBackfillState(bs, source_id, reset, clock) ==
    LET base == IF reset THEN [k \in DOMAIN bs \ {source_id} |-> bs[k]] ELSE bs
    IN IF source_id \in DOMAIN base
       THEN [base EXCEPT ![source_id].window_size = Max(1, BackfillWindow),
                         ![source_id].updated_at = clock]
       ELSE Put(base, source_id, NewBackfillRow(clock))

\* the cursor write keeps the stored next_start of an existing row
UpdateBackfillStateKeepingStart(bs, source_id, status, next_start, window_size, last_window_start, last_window_end, last_seen_count, completed_at, clock) ==
    Put(bs, source_id,
        [status |-> IF source_id \in DOMAIN bs /\ bs[source_id].next_start # next_start
                    THEN "active" ELSE status,
         next_start |-> IF source_id \in DOMAIN bs THEN bs[source_id].next_start
                        ELSE next_start,
         window_size |-> window_size,
         last_window_start |-> last_window_start, last_window_end |-> last_window_end,
         last_seen_count |-> last_seen_count, last_run_at |-> Some(clock),
         completed_at |-> completed_at, updated_at |-> clock])

UpdateBackfillState(bs, source_id, status, next_start, window_size, last_window_start, last_window_end, last_seen_count, completed_at, clock) ==
    Put(bs, source_id,
        [status |-> status, next_start |-> next_start, window_size |-> window_size,
         last_window_start |-> last_window_start, last_window_end |-> last_window_end,
         last_seen_count |-> last_seen_count, last_run_at |-> Some(clock),
         completed_at |-> completed_at, updated_at |-> clock])

WindowEndExclusive(playlist_start, window_size) == playlist_start + window_size

WindowEnd(playlist_start, window_size) == playlist_start + window_size - 1

ReachedTailInclusive(seen_count, window_size) == seen_count <= window_size

ReachedTail(seen_count, window_size) == seen_count < window_size

\* the ids the flat listing of a window can print: --ignore-errors drops entries
DiscoverPlaylistWindowIds(playlist_start, playlist_end) ==
    SUBSET {v \in playlist_start .. playlist_end : v <= remote_len}

\* after the window loop: the ledger is built only if some window was synchronised
AfterLoopPc(any_work) == IF ~local.skip_ledger /\ any_work THEN "ledger" ELSE "idle"

\* run_backfill up to the window loop; ensure_backfill_state is not yet committed
BackfillStart ==
    /\ pc = "idle"
    /\ \E skip_media, skip_subs, skip_meta, ffprobe, reset \in BOOLEAN,
          ledger \in LedgerModes, windows \in 1 .. MaxWindowsPerRun :
          LET ensured == EnsureBackfillState(backfill_state, Src, reset, now)
              row == ensured[Src]
              opts == Options("backfill", skip_media, skip_subs, skip_meta, ffprobe, ledger)
          IN /\ Spend(OptionCost(skip_media, skip_subs, skip_meta, ffprobe, ledger)
                      + Bit(reset) + (windows - 1))
             /\ IF row.status = "completed"
                THEN /\ local' = [BlankLocal EXCEPT !.mode = "backfill",
                                                    !.result = "completed"]
                     /\ pc' = "idle"
                ELSE /\ local' = [opts EXCEPT !.next_start = row.next_start,
                                              !.window_size = Max(1, row.window_size),
                                              !.windows_per_run = windows,
                                              !.pending = Some(ensured),
                                              !.reset = reset,
                                              !.result = "running"]
                     /\ pc' = "bf_discover"
    /\ UNCHANGED <<now, files, download_state, download_runs, backfill_state, videos,
                   remote_len, dependents, urls_file>>

DiscoveryFailedStateUntouched(bs, source_id, playlist_start, playlist_end, window_size, clock) ==
    bs

\* the cursor write of a window whose discovery raised
DiscoveryFailedState(bs, source_id, playlist_start, playlist_end, window_size, clock) ==
    UpdateBackfillState(bs, source_id, "active", playlist_start, window_size,
                        Some(playlist_start), Some(playlist_end), Null, Null, clock)

\* one window: discovery, then the cursor write of a failed or empty window,
\* or the entry into sync_source (whose first commit also commits the cursor row)
BfDiscover ==
    /\ pc = "bf_discover"
    /\ now' = now + CallSeconds
    /\ LET playlist_start == local.next_start
           playlist_end == WindowEnd(playlist_start, local.window_size)
           bs == Val(local.pending)
           listed == {v \in playlist_start .. playlist_end : v <= remote_len}
       IN \/ /\ Spend(1)      \* discovery raised
             /\ backfill_state' = DiscoveryFailedState(
                    bs, Src, playlist_start, playlist_end, local.window_size, now')
             /\ local' = [local EXCEPT !.seen_count = Null, !.pending = Null,
                                       !.result = "discovery failed"]
             /\ pc' = AfterLoopPc(local.any_work)
             /\ UNCHANGED <<files, download_state, download_runs, videos, remote_len, dependents, urls_file>>
          \/ \E window_ids \in DiscoverPlaylistWindowIds(playlist_start, playlist_end) :
                LET seen_count == Cardinality(window_ids)
                    cost == Cardinality(listed \ window_ids)
                IN IF seen_count = 0
                   THEN /\ Spend(cost)
                        /\ backfill_state' = UpdateBackfillState(
                               bs, Src, "completed", playlist_start, local.window_size,
                               Some(playlist_start), Some(playlist_end), Some(0),
                               Some(now'), now')
                        /\ local' = [local EXCEPT !.seen_count = Some(0),
                                                  !.pending = Null,
                                                  !.result = "backfilled"]
                        /\ pc' = AfterLoopPc(local.any_work)
                        /\ UNCHANGED <<files, download_state, download_runs, videos,
                                       remote_len, dependents, urls_file>>
                   ELSE SyncEnter([local EXCEPT !.seen_count = Some(seen_count),
                                                !.any_work = TRUE],
                                  cost, now', Some(window_ids),
                                  playlist_start, playlist_end)

\* after sync_source returned: the cursor is advanced past the window
BfUpdate ==
    /\ pc = "bf_update"
    /\ LET playlist_start == local.next_start
           playlist_end == WindowEnd(playlist_start, local.window_size)
           seen_count == Val(local.seen_count)
           reached_tail == ReachedTail(seen_count, local.window_size)
           next_start == playlist_end + 1
           last == reached_tail \/ local.window_index + 1 >= local.windows_per_run
       IN /\ backfill_state' = UpdateBackfillState(
                 PendingBs, Src, IF reached_tail THEN "completed" ELSE "active",
                 next_start, local.window_size, Some(playlist_start), Some(playlist_end),
                 Some(seen_count), IF reached_tail THEN Some(now) ELSE Null, now)
          /\ local' = [local EXCEPT !.next_start = next_start,
                                    !.window_index = @ + 1,
                                    !.pending = IF last THEN Null ELSE Some(backfill_state'),
                                    !.result = IF last THEN "backfilled" ELSE "running"]
          /\ pc' = IF last THEN AfterLoopPc(TRUE) ELSE "bf_discover"
    /\ UNCHANGED <<now, files, download_state, download_runs, videos, remote_len, dependents, urls_file,
                   anomalies>>

\* the process dies: what was committed stays, the locals are gone
Crash ==
    /\ pc # "idle"
    /\ Spend(1)
    /\ pc' = "idle"
    /\ local' = [BlankLocal EXCEPT !.result = "crashed"]
    /\ UNCHANGED <<now, files, download_state, download_runs, backfill_state, videos,
                   remote_len, dependents, urls_file>>

\* time passes between invocations: long enough for a first retry to fall due
TickSeconds == 2 * BackoffBaseSeconds

Tick ==
    /\ pc = "idle"
    /\ now \div TickSeconds < MaxTicks
    /\ now' = now + TickSeconds
    /\ UNCHANGED <<files, download_state, download_runs, backfill_state, videos,
                   remote_len, dependents, urls_file, pc, local, anomalies>>

\* sync_source between its entry and its return
SyncSteps ==
    \/ MediaSkip \/ MediaBegin \/ MediaCall \/ MediaCheck
    \/ SubsSkip \/ SubsNoTargets \/ SubsBegin \/ SubsCall \/ SubsClassify
    \/ MetaNothing \/ MetaBegin \/ MetaCall \/ MetaClassify

\* the sync command, the ledger build after it, and the loudness command
Next ==
    \/ SyncStart
    \/ SyncSteps
    \/ LedgerBuild
    \/ RunLoudness
    \/ Crash
    \/ Tick

Spec == Init /\ [][Next]_vars

\* the backfill command on playlists of every length
InitBackfill ==
    /\ now = 0
    /\ media_archive = NoArchive
    /\ subs_archive = NoArchive
    /\ media_files = [v \in VideoIds |-> "none"]
    /\ sub_files = {}
    /\ meta_files = {}
    /\ download_state = EmptyFn
    /\ download_runs = <<>>
    /\ backfill_state = EmptyFn
    /\ videos = EmptyFn
    /\ remote_len \in 0 .. MaxId
    /\ dependents = {}
    /\ urls_file = {}
    /\ pc = "idle"
    /\ local = BlankLocal
    /\ anomalies = 0

NextBackfill ==
    \/ BackfillStart
    \/ BfDiscover
    \/ SyncSteps
    \/ BfUpdate
    \/ LedgerBuild
    \/ Crash
    \/ Tick

SpecBackfill == InitBackfill /\ [][NextBackfill]_vars

\* ------------------------------------------------ the ledger command
MaxFileEvents == 3

\* the ids whose local files change between commands
LedgerIds == 1 .. PlaylistEnd

DependentTables == {"video_favorites", "subtitle_bookmarks", "video_notes"}

AppendArchiveId(archive, v) == [exists |-> TRUE, ids |-> ReadArchiveIds(archive) \cup {v}]

\* one change of the local files between two commands: a file of an item
\* appears or is removed, or a line is appended to an archive
FileEvent ==
    /\ pc = "idle"
    /\ anomalies < MaxFileEvents
    /\ anomalies' = anomalies + 1
    /\ \E v \in LedgerIds :
          \/ /\ media_files' = [media_files EXCEPT
                                    ![v] = IF @ = "none" THEN "audio" ELSE "none"]
             /\ UNCHANGED <<media_archive, subs_archive, sub_files, meta_files>>
          \/ /\ sub_files' = IF v \in sub_files THEN sub_files \ {v}
                              ELSE sub_files \cup {v}
             /\ UNCHANGED <<media_archive, subs_archive, media_files, meta_files>>
          \/ /\ meta_files' = IF v \in meta_files THEN meta_files \ {v}
                               ELSE meta_files \cup {v}
             /\ UNCHANGED <<media_archive, subs_archive, media_files, sub_files>>
          \/ /\ v \notin ReadArchiveIds(media_archive)
             /\ media_archive' = AppendArchiveId(media_archive, v)
             /\ UNCHANGED <<subs_archive, media_files, sub_files, meta_files>>
          \/ /\ v \notin ReadArchiveIds(subs_archive)
             /\ subs_archive' = AppendArchiveId(subs_archive, v)
             /\ UNCHANGED <<media_archive, media_files, sub_files, meta_files>>
    /\ local' = [BlankLocal EXCEPT !.result = "files changed"]
    /\ UNCHANGED <<now, download_state, download_runs, backfill_state, videos,
                   remote_len, dependents, urls_file, pc>>

\* the web handlers of the side tables: a favorite, a bookmark or a note of
\* an existing video is created or deleted
WebToggle ==
    /\ pc = "idle"
    /\ \E table \in DependentTables, k \in DOMAIN videos :
          LET d == <<table, k[1], k[2]>>
          IN dependents' = IF d \in dependents THEN dependents \ {d}
                           ELSE dependents \cup {d}
    /\ local' = [BlankLocal EXCEPT !.result = "toggled"]
    /\ UNCHANGED <<now, files, download_state, download_runs, backfill_state, videos,
                   remote_len, urls_file, pc, anomalies>>

\* the build that ran just before, with nothing else in between
PreviousBuild ==
    IF local.mode = "ledger" /\ local.result = "ledgered"
    THEN (IF local.full_ledger THEN "full" ELSE "incremental")
    ELSE "none"

\* main(): the ledger command, full or with --incremental
LedgerCommand ==
    /\ pc = "idle"
    /\ \E incremental \in BOOLEAN :
          /\ videos' = BuildLedgerVideos(videos, Src, incremental)
          /\ download_state' = BuildLedgerDownloadState(download_state, videos', Src)
          /\ dependents' = BuildLedgerDependents(dependents, videos, Src, incremental)
          /\ local' = LedgerOutcome([BlankLocal EXCEPT !.mode = "ledger",
                                                       !.full_ledger = ~incremental,
                                                       !.previous = PreviousBuild],
                                    videos, dependents, Src, incremental)
    /\ UNCHANGED <<now, files, download_runs, backfill_state, remote_len, urls_file, pc,
                   anomalies>>

InitLedger ==
    /\ now = 0
    /\ media_archive = NoArchive
    /\ subs_archive = NoArchive
    /\ media_files = [v \in VideoIds |-> "none"]
    /\ sub_files = {}
    /\ meta_files = {}
    /\ download_state = EmptyFn
    /\ download_runs = <<>>
    /\ backfill_state = EmptyFn
    /\ videos = EmptyFn
    /\ remote_len = MaxId
    /\ dependents = {}
    /\ urls_file = {}
    /\ pc = "idle"
    /\ local = BlankLocal
    /\ anomalies = 0

NextLedger ==
    \/ FileEvent
    \/ WebToggle
    \/ LedgerCommand

SpecLedger == InitLedger /\ [][NextLedger]_vars

\* ------------------------------------------- split_retryable_ids on its own
\* rows of every shape the columns allow, for the ids 1 and 2 of one stage,
\* with or without rows of another stage and of another source
SplitRows ==
    {[status |-> "success", retry_count |-> 0, last_error |-> Null,
      last_attempt_at |-> 0, next_retry_at |-> Null, last_run_id |-> Null,
      updated_at |-> 0]}
    \cup {[status |-> "error", retry_count |-> 1, last_error |-> Some("command exit code"),
           last_attempt_at |-> 0, next_retry_at |-> t, last_run_id |-> Null,
           updated_at |-> 0]
          : t \in {Null, EmptyStamp, Some(0), Some(BackoffBaseSeconds),
                   Some(TickSeconds)}}

SplitKeys == {Key(Src, "subs", 1), Key(Src, "subs", 2)}

SplitDecoys ==
    [k \in {Key(Src, "meta", 1), Key("beta", "subs", 2)} |->
        [status |-> "error", retry_count |-> 1, last_error |-> Some("command exit code"),
         last_attempt_at |-> 0, next_retry_at |-> Some(BackoffCapSeconds),
         last_run_id |-> Null, updated_at |-> 0]]

SplitStores ==
    UNION {{[k \in S \cup D |-> IF k \in S THEN f[k] ELSE SplitDecoys[k]]
                : f \in [S -> SplitRows]}
           : S \in SUBSET SplitKeys, D \in {{}, DOMAIN SplitDecoys}}

RECURSIVE SeqsUpTo(_, _)
SeqsUpTo(S, n) ==
    IF n = 0 THEN {<<>>}
    ELSE SeqsUpTo(S, n - 1)
         \cup {Append(q, x) : q \in {y \in SeqsUpTo(S, n - 1) : Len(y) = n - 1}, x \in S}

InitSplit ==
    /\ now = 0
    /\ media_archive = NoArchive
    /\ subs_archive = NoArchive
    /\ media_files = [v \in VideoIds |-> "none"]
    /\ sub_files = {}
    /\ meta_files = {}
    /\ download_state \in SplitStores
    /\ download_runs = <<>>
    /\ backfill_state = EmptyFn
    /\ videos = EmptyFn
    /\ remote_len = MaxId
    /\ dependents = {}
    /\ urls_file = {}
    /\ pc = "idle"
    /\ local = BlankLocal
    /\ anomalies = 0

\* one call of split_retryable_ids(connection, source, "subs", candidates, now_iso)
SplitCall ==
    /\ pc = "idle"
    /\ \E candidate_ids \in SeqsUpTo(1 .. MaxCandidates + 1, MaxCandidates),
          now_value \in {0, BackoffBaseSeconds} :
          local' = [BlankLocal EXCEPT
                        !.mode = "split", !.split_in = candidate_ids,
                        !.split_now = now_value,
                        !.split_out = Some(SplitRetryableIds(download_state, Src, "subs",
                                                             candidate_ids, now_value))]
    /\ UNCHANGED <<now, files, download_state, download_runs, backfill_state, videos,
                   remote_len, dependents, urls_file, pc, anomalies>>

SpecSplit == InitSplit /\ [][SplitCall]_vars

\* ------------------------------------ the recovery pass on tables of any past
\* rows as this and earlier versions of the program, or a crash, can leave them
LegacyRunRows ==
    {[source_id |-> s, stage |-> st, status |-> status, started_at |-> 0,
      target_count |-> Null, finished_at |-> f,
      exit_code |-> IF status = "running" THEN Null ELSE Some(0),
      success_count |-> Null, failure_count |-> Null, error_message |-> m]
     : s \in Sources, st \in {"media", "subs"}, status \in {"running", "success"},
       f \in {Null, Some(0)}, m \in {Null, Some(""), Some("disk full")}}

\* no row, any one row, or two running rows of the source
LegacyRunTables ==
    {<<>>} \cup {<<r>> : r \in LegacyRunRows}
    \cup {<<a, b>> : a, b \in {r \in LegacyRunRows :
                                    r.source_id = Src /\ r.status = "running"}}

InitRecover ==
    /\ now = TickSeconds
    /\ media_archive = NoArchive
    /\ subs_archive = NoArchive
    /\ media_files = [v \in VideoIds |-> "none"]
    /\ sub_files = {}
    /\ meta_files = {}
    /\ download_state = EmptyFn
    /\ download_runs \in LegacyRunTables
    /\ backfill_state = EmptyFn
    /\ videos = EmptyFn
    /\ remote_len = MaxId
    /\ dependents = {}
    /\ urls_file = {}
    /\ pc = "idle"
    /\ local = BlankLocal
    /\ anomalies = 0

\* the entry of a sync or backfill invocation, up to its recovery commit
NextRecover ==
    \/ SyncStart
    \/ BackfillStart
    \/ BfDiscover

SpecRecover == InitRecover /\ [][NextRecover]_vars

\* ==================================================================== claims
SyncPcs ==
    {"media_start", "media_call", "media_check", "subs_start", "subs_call",
     "subs_classify", "meta_start", "meta_call", "meta_classify"}

\* a sync_source invocation is under way, or has returned and nothing ran since
InvocationOpen == pc \in SyncPcs \/ local.result = "returned"

NewMediaIds == local.media_after \ local.media_before

NewSubIds == local.subs_after \ local.subs_before

RecordIs(stage, v, status) ==
    /\ HasRow(download_state, Key(Src, stage, v))
    /\ download_state[Key(Src, stage, v)].status = status

RetryCountOf(stage, v) == download_state[Key(Src, stage, v)].retry_count

SubsEvidence == ReadArchiveIds(subs_archive) \cup ScanSubtitles

AfterSubsClassify == pc = "meta_start" /\ local.stage = "subs"

AfterMetaClassify == local.result = "returned" /\ local.stage = "meta"

AfterMediaCheck == pc = "subs_start" /\ local.stage = "media"

\* C1 as stated: during and at the end of an invocation, every id that is in a
\* stage's archive after the downloader call and was not before it has a
\* RetryRecord with status=success and retry_count=0.
C1_NewIdsAllSuccess ==
    InvocationOpen =>
        /\ \A v \in NewMediaIds :
              RecordIs("media", v, "success") /\ RetryCountOf("media", v) = 0
        /\ \A v \in NewSubIds :
              RecordIs("subs", v, "success") /\ RetryCountOf("subs", v) = 0

\* C1: every id new in the subtitle archive has status=success, retry_count=0;
\* every id new in the media archive has status=success, retry_count=0 unless
\* the audio check of the invocation recorded a failure for it, and then it has
\* status=error with retry_count >= 1.
C1_NewIdsSuccessUnlessAudioFailure ==
    InvocationOpen =>
        /\ \A v \in NewMediaIds :
              IF v \in local.media_audio_fallback_failures
              THEN RecordIs("media", v, "error") /\ RetryCountOf("media", v) >= 1
              ELSE RecordIs("media", v, "success") /\ RetryCountOf("media", v) = 0
        /\ \A v \in NewSubIds :
              RecordIs("subs", v, "success") /\ RetryCountOf("subs", v) = 0

\* sync_source has returned with a new media id that failed its audio check,
\* another that passed, and new subtitle ids
C1_Witness ==
    /\ local.result = "returned"
    /\ NewMediaIds \cap local.media_audio_fallback_failures # {}
    /\ NewMediaIds \ local.media_audio_fallback_failures # {}
    /\ NewSubIds # {}

\* C2: the status a subs or meta batch writes for a target is success iff the
\* target is in the evidence (archive or file) after the call, whatever the
\* exit code or exception of the call; the classification of the same targets
\* and evidence under any other exit code gives the same statuses.
C2_EvidenceBased ==
    /\ AfterSubsClassify =>
          /\ \A v \in local.targets :
                RecordIs("subs", v, IF v \in SubsEvidence THEN "success" ELSE "error")
          /\ \A code \in {0, 1}, err \in BOOLEAN :
                ClassifyBatch(local.targets, SubsEvidence, code, err, "").success
                    = {v \in local.targets : RecordIs("subs", v, "success")}
    /\ AfterMetaClassify =>
          /\ \A v \in local.targets :
                RecordIs("meta", v, IF v \in ListMetaIds THEN "success" ELSE "error")
          /\ \A code \in {0, 1}, err \in BOOLEAN :
                ClassifyBatch(local.targets, ListMetaIds, code, err, "").success
                    = {v \in local.targets : RecordIs("meta", v, "success")}

\* a subs batch whose call failed, with a target that has evidence and one that
\* has none
C2_Witness ==
    /\ AfterSubsClassify
    /\ local.exit_code # 0
    /\ local.targets \cap SubsEvidence # {}
    /\ local.targets \ SubsEvidence # {}

C4_RecoveryPass ==
    [][pc' = "media_start" =>
          \A r \in DOMAIN download_runs :
              (download_runs[r].source_id = Src /\ download_runs[r].status = "running")
              => /\ download_runs'[r].status = "error"
                 /\ download_runs'[r].error_message \notin {Null, Some("")}
                 /\ (download_runs[r].error_message \notin {Null, Some("")}
                     => download_runs'[r].error_message = download_runs[r].error_message)
                 /\ (~IsNull(download_runs[r].finished_at)
                     => download_runs'[r].finished_at = download_runs[r].finished_at)]_vars

\* after a recovery pass: one Run kept its message and finished_at, another got
\* the recovery message and the time of the pass
C4_Witness ==
    /\ pc = "media_start"
    /\ \E r1, r2 \in DOMAIN download_runs :
          /\ download_runs[r1].status = "error"
          /\ download_runs[r1].exit_code = Some(InterruptedExitCode)
          /\ download_runs[r1].error_message = Some("disk full")
          /\ download_runs[r1].finished_at = Some(0)
          /\ download_runs[r2].status = "error"
          /\ download_runs[r2].error_message = Some("interrupted previous run")
          /\ download_runs[r2].finished_at = Some(TickSeconds)

\* C5: Runs are only added, under a fresh id, as running (a zero-target Run is
\* closed in the commit that adds it); a running Run changes only by its one
\* terminal write, made by the finish of the invocation that began it or by the
\* recovery pass of a later one; a terminal Run never changes.
C5_RunLifecycle ==
    [][/\ Len(download_runs') >= Len(download_runs)
       /\ \A r \in DOMAIN download_runs :
             /\ download_runs[r].status \in {"success", "error"}
                => download_runs'[r] = download_runs[r]
             /\ (download_runs[r].status = "running"
                 /\ download_runs'[r] # download_runs[r])
                => /\ download_runs'[r].status \in {"success", "error"}
                   /\ download_runs'[r].source_id = download_runs[r].source_id
                   /\ download_runs'[r].stage = download_runs[r].stage
                   /\ download_runs'[r].started_at = download_runs[r].started_at
                   /\ \/ /\ local.run_id = Some(r)
                         /\ pc \in {"media_check", "subs_classify", "meta_classify"}
                      \/ /\ pc = "idle" /\ pc' = "media_start"
                         /\ download_runs'[r].status = "error"
       /\ \A r \in DOMAIN download_runs' \ DOMAIN download_runs :
             /\ r = Len(download_runs) + 1
             /\ \/ download_runs'[r].status = "running"
                \/ /\ download_runs'[r].status = "success"
                   /\ download_runs'[r].target_count = Some(0)]_vars

\* a Run closed by crash recovery, and a later Run closed by its own finish
C5_Witness ==
    \E r1, r2 \in DOMAIN download_runs :
        /\ r1 < r2
        /\ download_runs[r1].status = "error"
        /\ download_runs[r1].error_message = Some("interrupted previous run")
        /\ download_runs[r2].status \in {"success", "error"}
        /\ ~IsNull(download_runs[r2].success_count)

\* C6: split_retryable_ids returns the candidates that are not deferred, in
\* order, and the deferred ones, in order: every candidate is in exactly one
\* list, nothing else is in either, and a candidate is deferred iff its record
\* exists with status=error and a non-empty next_retry_at later than now.
C6_ExactPartition ==
    ~IsNull(local.split_out) =>
        LET out == Val(local.split_out)
            Range(q) == {q[i] : i \in DOMAIN q}
            Late(v) ==
                /\ <<Src, "subs", v>> \in DOMAIN download_state
                /\ download_state[<<Src, "subs", v>>].status = "error"
                /\ download_state[<<Src, "subs", v>>].next_retry_at
                       \notin {Null, EmptyStamp}
                /\ Val(download_state[<<Src, "subs", v>>].next_retry_at) > local.split_now
            Early(v) == ~Late(v)
        IN /\ Range(out.retryable) \cup Range(out.deferred) = Range(local.split_in)
           /\ Range(out.retryable) \cap Range(out.deferred) = {}
           /\ Len(out.retryable) + Len(out.deferred) = Len(local.split_in)
           /\ \A v \in Range(local.split_in) : v \in Range(out.deferred) <=> Late(v)
           /\ out.deferred = SelectSeq(local.split_in, Late)
           /\ out.retryable = SelectSeq(local.split_in, Early)

\* a call that deferred one candidate and let through another whose
\* next_retry_at is exactly now
C6_Witness ==
    /\ ~IsNull(local.split_out)
    /\ Len(Val(local.split_out).deferred) >= 1
    /\ \E i \in DOMAIN Val(local.split_out).retryable :
          LET k == <<Src, "subs", Val(local.split_out).retryable[i]>>
          IN /\ k \in DOMAIN download_state
             /\ download_state[k].status = "error"
             /\ download_state[k].next_retry_at = Some(local.split_now)

\* C7: every RetryRecord with status=success has retry_count=0 and no
\* next_retry_at.
C7_SuccessIsReset ==
    \A k \in DOMAIN download_state :
        download_state[k].status = "success" =>
            /\ download_state[k].retry_count = 0
            /\ IsNull(download_state[k].next_retry_at)

\* a success written by a later Run for an id of a stage all of whose targets
\* had failed in an earlier Run
C7_Witness ==
    \E k \in DOMAIN download_state, r0 \in DOMAIN download_runs :
        /\ download_state[k].status = "success"
        /\ ~IsNull(download_state[k].last_run_id)
        /\ r0 < Val(download_state[k].last_run_id)
        /\ download_runs[r0].stage = k[2]
        /\ download_runs[r0].failure_count = Some(PlaylistEnd)
        /\ k[3] \in 1 .. PlaylistEnd

\* a Run closed by finish_download_run (recovery leaves the counts empty)
Finished(r) == ~IsNull(download_runs[r].failure_count)

IsBfUpdate == pc = "bf_update" /\ local'.result # "crashed"

\* the step is a discovery that listed no id
IsEmptyDiscovery == pc = "bf_discover" /\ local'.seen_count = Some(0)

\* C9: a window whose discovery returns window_size ids is synchronised, then
\* next_start advances by window_size and the cursor stays active; a discovery
\* that returns no id completes the cursor at the same next_start; so with a
\* playlist of exactly one full window, undisturbed invocations leave the cursor
\* one window further after the first and completed there after the second.
C9_WindowTransitions ==
    /\ [][/\ (IsBfUpdate /\ local.seen_count = Some(local.window_size))
             => /\ local.result = "returned"
                /\ local.lo = local.next_start
                /\ local.hi = local.next_start + local.window_size - 1
                /\ PendingBs[Src].next_start = local.next_start
                /\ backfill_state'[Src].next_start
                       = local.next_start + local.window_size
                /\ backfill_state'[Src].status = "active"
          /\ IsEmptyDiscovery
             => /\ PendingBs[Src].next_start = local.next_start
                /\ backfill_state'[Src].next_start = local.next_start
                /\ backfill_state'[Src].status = "completed"]_vars
    /\ []((/\ anomalies = 0
           /\ remote_len = SourceBackfillStart + BackfillWindow - 1
           /\ Src \in DOMAIN backfill_state)
          => /\ backfill_state[Src].status = "completed"
                => /\ backfill_state[Src].next_start
                          = SourceBackfillStart + BackfillWindow
                   /\ backfill_state[Src].last_seen_count = Some(0)
             /\ pc = "idle"
                => backfill_state[Src].next_start
                       = SourceBackfillStart + BackfillWindow
             /\ (pc = "idle" /\ backfill_state[Src].last_window_start
                                    = Some(SourceBackfillStart + BackfillWindow))
                => backfill_state[Src].status = "completed")

\* one full window was synchronised by a first invocation, a second invocation
\* found the next window empty: the cursor is completed one window further
C9_Witness ==
    /\ anomalies = 0
    /\ remote_len = SourceBackfillStart + BackfillWindow - 1
    /\ pc = "idle"
    /\ Src \in DOMAIN backfill_state
    /\ backfill_state[Src].status = "completed"
    /\ backfill_state[Src].next_start = SourceBackfillStart + BackfillWindow
    /\ backfill_state[Src].last_seen_count = Some(0)
    /\ Len(download_runs) >= 1

\* the cursor of the source is completed
Completed(bs) == Src \in DOMAIN bs /\ bs[Src].status = "completed"

\* C10: after a successful discovery the cursor becomes completed iff fewer ids
\* than window_size were listed; with at least one id the window is first
\* synchronised and next_start moved past it; a failed discovery leaves the
\* cursor active, and nothing else completes a cursor.
C10_TailDetection ==
    [][/\ IsBfUpdate
          => /\ Val(local.seen_count) > 0
             /\ local.result = "returned"
             /\ local.lo = local.next_start
             /\ backfill_state'[Src].next_start = local.hi + 1
             /\ backfill_state'[Src].next_start > local.next_start
             /\ Completed(backfill_state')
                <=> Val(local.seen_count) < local.window_size
       /\ IsEmptyDiscovery => Completed(backfill_state')
       /\ (pc = "bf_discover" /\ local'.result = "discovery failed")
          => ~Completed(backfill_state')
       /\ (Completed(backfill_state') /\ ~Completed(backfill_state))
          => \/ IsEmptyDiscovery
             \/ IsBfUpdate /\ Val(local.seen_count) < local.window_size]_vars

\* a window that listed some ids, but fewer than window_size, was synchronised
\* and completed the cursor past the window
C10_Witness ==
    /\ Completed(backfill_state)
    /\ ~IsNull(backfill_state[Src].last_seen_count)
    /\ Val(backfill_state[Src].last_seen_count) > 0
    /\ Val(backfill_state[Src].last_seen_count) < backfill_state[Src].window_size
    /\ backfill_state[Src].next_start = Val(backfill_state[Src].last_window_end) + 1

\* the step is a window whose discovery raised
IsFailedDiscovery == pc = "bf_discover" /\ local'.result = "discovery failed"

\* the columns of a cursor row that the cursor consists of
CursorFields(row) ==
    <<row.status, row.next_start, row.last_window_start, row.last_window_end,
      row.last_seen_count, row.completed_at>>

CursorRewritten ==
    /\ Src \in DOMAIN backfill_state
    /\ Src \in DOMAIN backfill_state'
    /\ backfill_state[Src].status = "active"

\* the step enters the synchronisation of a window
IsWindowEntry == pc = "bf_discover" /\ pc' = "media_start"

\* the window entered by the step does not lie before the last recorded window,
\* and lies after it if that window was synchronised
WindowAscends ==
    (Src \in DOMAIN backfill_state /\ ~IsNull(backfill_state[Src].last_window_start))
    => /\ local'.lo >= Val(backfill_state[Src].last_window_start)
       /\ (~IsNull(backfill_state[Src].last_seen_count)
           /\ Val(backfill_state[Src].last_seen_count) > 0)
          => local'.lo > Val(backfill_state[Src].last_window_end)

\* C12 as stated: in every sequence of backfill invocations the persisted
\* next_start of an active cursor never decreases and the synchronised windows
\* are visited in ascending order.
C12_NextStartNeverDecreases ==
    [][/\ CursorRewritten
          => backfill_state'[Src].next_start >= backfill_state[Src].next_start
       /\ IsWindowEntry => WindowAscends
       /\ IsBfUpdate => backfill_state'[Src].next_start > local.lo]_vars

\* C12: in invocations run without --reset the persisted next_start of an
\* active cursor never decreases and the synchronised windows are visited in
\* ascending order; an invocation run with --reset restarts the cursor, never
\* below the configured start.
C12_NextStartNeverDecreasesWithoutReset ==
    [][/\ (CursorRewritten /\ ~local.reset)
          => backfill_state'[Src].next_start >= backfill_state[Src].next_start
       /\ (IsWindowEntry /\ ~local.reset) => WindowAscends
       /\ IsBfUpdate => backfill_state'[Src].next_start > local.lo
       /\ Src \in DOMAIN backfill_state'
          => backfill_state'[Src].next_start >= GetDefaultBackfillStart]_vars

\* two windows were synchronised one after the other and the cursor stands
\* after the second
C12_Witness ==
    /\ Src \in DOMAIN backfill_state
    /\ ~local.reset
    /\ backfill_state[Src].last_window_start = Some(SourceBackfillStart + BackfillWindow)
    /\ backfill_state[Src].next_start = SourceBackfillStart + 2 * BackfillWindow
    /\ backfill_state[Src].last_seen_count = Some(BackfillWindow)

\* the step is one build_ledger, after a synchronisation or as a command
IsLedgerStep ==
    /\ local'.result = "ledgered"
    /\ pc' = "idle"
    /\ pc = "ledger" \/ (pc = "idle" /\ local'.mode = "ledger")

\* the step is a build_ledger that runs the full rebuild
IsFullRebuildStep ==
    IsLedgerStep /\ TakesFullRebuild(videos, Src, ~local'.full_ledger)

C14_IncrementalNeverDeletes ==
    [][(IsLedgerStep /\ ~local'.full_ledger)
       => /\ DOMAIN videos \subseteq DOMAIN videos'
          /\ dependents \subseteq dependents'
          /\ DOMAIN download_state \subseteq DOMAIN download_state']_vars

\* the step is an incremental ledger command run right after an incremental
\* ledger command, with no change of the local files in between
IsRepeatedIncremental ==
    /\ IsLedgerStep
    /\ pc = "idle"
    /\ PreviousBuild = "incremental"
    /\ ~local'.full_ledger

\* the archived ids for which a file that the archives promise is not on disk
ExpectedFileMissing ==
    ((ReadArchiveIds(media_archive) \cup ReadArchiveIds(subs_archive)) \ ListMetaIds)
    \cup (ReadArchiveIds(media_archive) \ ScanMediaFiles)
    \cup (ReadArchiveIds(subs_archive) \ ScanSubtitles)

IsIncrementalAfterFull ==
    /\ IsLedgerStep
    /\ pc = "idle"
    /\ PreviousBuild = "full"
    /\ ~local'.full_ledger

\* the archived ids without any local file
ArchivedWithoutFile ==
    (ReadArchiveIds(media_archive) \cup ReadArchiveIds(subs_archive)) \ AllVideoIds

IsAttemptStep == pc \in {"media_check", "subs_classify", "meta_classify"}

\* C17 as stated: a RetryRecord is deleted only when a full rebuild prunes its
\* CatalogItem; no stage, no backfill invocation and no incremental ledger
\* build removes one, and a status=error record keeps its retry_count and
\* next_retry_at until a later attempt on the item.
C17_RetryRecordOutlivesIncrementalBuild ==
    [][\A k \in DOMAIN download_state :
          /\ k \notin DOMAIN download_state'
             => /\ IsLedgerStep
                /\ local'.full_ledger
                /\ <<k[1], k[3]>> \in DOMAIN videos
                /\ <<k[1], k[3]>> \notin DOMAIN videos'
          /\ (k \in DOMAIN download_state' /\ download_state[k].status = "error"
                 /\ ~IsAttemptStep)
             => /\ download_state'[k].retry_count = download_state[k].retry_count
                /\ download_state'[k].next_retry_at = download_state[k].next_retry_at]_vars

\* the row with its loudness columns set to NULL
LoudnessCleared(row) ==
    [row EXCEPT !.audio_lufs_null = TRUE, !.audio_gain = "null",
                !.audio_analyzed = FALSE, !.audio_error = FALSE]

\* C18 as stated: no step of sync_source changes a row of the catalog, also
\* when the audio repair succeeds.
C18_SyncNeverWritesCatalog ==
    [][(pc \in SyncPcs) => (videos' = videos)]_vars

\* C18: sync_source creates and deletes no CatalogItem and changes no column
\* of one, except that the media stage sets the loudness columns of an item to
\* NULL when its audio repair succeeded.
C18_SyncOnlyClearsLoudnessOfRepaired ==
    [][(pc \in SyncPcs \/ pc' = "media_start")
       => /\ DOMAIN videos' = DOMAIN videos
          /\ \A k \in DOMAIN videos :
                \/ videos'[k] = videos[k]
                \/ /\ pc = "media_check"
                   /\ k[1] = Src
                   /\ k[2] \in local'.repaired_media_ids
                   /\ media_files'[k[2]] = "audio"
                   /\ videos'[k] = LoudnessCleared(videos[k])]_vars

\* the media stage repaired the audio of a catalogued item
C18_Witness ==
    /\ AfterMediaCheck
    /\ \E v \in local.repaired_media_ids :
          /\ <<Src, v>> \in DOMAIN videos
          /\ videos[<<Src, v>>] = LoudnessCleared(videos[<<Src, v>>])
          /\ RecordIs("media", v, "success")

\* ---------------------------------------------------------------- C19
IsMediaCheckStep == pc = "media_check" /\ pc' = "subs_start"

\* between two commands the media file of an item is removed from the media
\* directory; the archive line and the database rows stay
MediaFileRemoved ==
    /\ pc = "idle"
    /\ Spend(1)
    /\ \E v \in VideoIds :
          /\ media_files[v] # "none"
          /\ media_files' = [media_files EXCEPT ![v] = "none"]
    /\ local' = [BlankLocal EXCEPT !.result = "files changed"]
    /\ UNCHANGED <<now, media_archive, subs_archive, sub_files, meta_files, download_state,
                   download_runs, backfill_state, videos, remote_len, dependents, urls_file, pc>>

NextRepair ==
    \/ SyncStart
    \/ SyncSteps
    \/ LedgerBuild
    \/ RunLoudness
    \/ MediaFileRemoved
    \/ Crash
    \/ Tick

SpecRepair == Init /\ [][NextRepair]_vars

\* C19 (as stated): in one media-stage invocation at most one alternate-format
\* re-download is issued per item, also for an item whose media file is
\* missing at the start of the check
C19_AtMostOneRedownloadPerItem ==
    \A v \in DOMAIN local.audio_check : local.audio_check[v].downloads <= 1

\* ---------------------------------------------------------------- C20
\* C20 (as stated): no item is classified status=error because an audio probe
\* returned unknown, before or after a repair re-download
C20_UnknownProbeNeverFailsItem ==
    [][IsMediaCheckStep =>
          \A v \in DOMAIN local'.audio_check :
              LET probes == local'.audio_check[v].probes
              IN (probes # <<>> /\ probes[Len(probes)] = "unknown")
                    => download_state'[<<Src, "media", v>>].status # "error"]_vars

\* C20 (amended): a first probe that returns unknown skips the repair and the
\* item is recorded as a success; a re-probe after a repair re-download that
\* returns unknown records the item as an error with the reason
\* "audio fallback ffprobe warning"
C20_OnlyFirstUnknownProbeIsSkipped ==
    [][IsMediaCheckStep =>
          \A v \in DOMAIN local'.audio_check :
              LET probes == local'.audio_check[v].probes
                  row == download_state'[<<Src, "media", v>>]
              IN /\ probes = <<"unknown">> => row.status = "success"
                 /\ (Len(probes) = 2 /\ probes[2] = "unknown")
                       => /\ probes[1] = "no"
                          /\ row.status = "error"
                          /\ row.last_error = Some("audio fallback ffprobe warning")]_vars

C20_Witness ==
    \E v \in DOMAIN local.audio_check :
        /\ local.audio_check[v].probes = <<"no", "unknown">>
        /\ <<Src, "media", v>> \in DOMAIN download_state
        /\ download_state[<<Src, "media", v>>].status = "error"

\* ---------------------------------------------------------------- C21
MediaRow(ds, v) == ds[<<Src, "media", v>>]

\* the audio check of the item ended without a failure entry
AudioCheckPassed(probes) ==
    /\ probes # <<>>
    /\ probes[Len(probes)] = "yes" \/ probes = <<"unknown">>

\* C21 (as stated): an evaluated media item whose media file does not exist
\* when the audio check looks for it is classified status=error in that
\* invocation
C21_MissingFileIsFailed ==
    [][IsMediaCheckStep =>
          \A v \in DOMAIN local'.media_file_before :
              local'.media_file_before[v] = "none"
                 => MediaRow(download_state', v).status = "error"]_vars

\* C21 (amended): for an item whose media file is missing the check first
\* issues an alternate-format re-download; the item is status=error iff that
\* download fails, the file is still missing, or the audio check of the
\* downloaded file fails, and status=success otherwise
C21_MissingFileIsRedownloaded ==
    [][IsMediaCheckStep =>
          \A v \in DOMAIN local'.media_file_before :
              local'.media_file_before[v] = "none"
                 => LET chk == local'.audio_check[v]
                        row == MediaRow(download_state', v)
                    IN /\ chk.downloads >= 1
                       /\ media_files'[v] = "none" => row.status = "error"
                       /\ row.status = "success" <=> AudioCheckPassed(chk.probes)
                       /\ row.status = "error" <=> ~AudioCheckPassed(chk.probes)]_vars

C21_Witness ==
    \E v \in DOMAIN local.media_file_before :
        /\ local.media_file_before[v] = "none"
        /\ pc = "subs_start"
        /\ MediaRow(download_state, v).status = "success"
        /\ media_files[v] = "audio"

\* ---------------------------------------------------------------- C22
CallPcs == {"media_call", "subs_call", "meta_call"}

\* the step appends a finished success run of the stage with target_count 0
\* and does not go on to the downloader call
ZeroTargetRunRecorded(stage) ==
    /\ Len(download_runs') = Len(download_runs) + 1
    /\ LET run == download_runs'[Len(download_runs')]
       IN /\ run.stage = stage
          /\ run.target_count = Some(0)
          /\ run.status = "success"
    /\ pc' \notin CallPcs

StageStartsEmpty(start_pc, skipped, targets) ==
    /\ pc = start_pc
    /\ ~skipped
    /\ targets = {}
    /\ local'.result # "crashed"

\* C22 (as stated): for each of the three stages, an empty target set records
\* a Run with target_count=0 and status=success and the downloader is not
\* invoked for that stage
C22_EmptyStageRecordsZeroRun ==
    [][/\ StageStartsEmpty("media_start", local.skip_media, MediaCandidates)
            => ZeroTargetRunRecorded("media")
       /\ StageStartsEmpty("subs_start", local.skip_subs, SubtitleTargetIds)
            => ZeroTargetRunRecorded("subs")
       /\ StageStartsEmpty("meta_start", local.skip_meta, MetadataTargetIds)
            => ZeroTargetRunRecorded("meta")]_vars

\* C22 (amended): only the subs stage records a zero-target success Run; the
\* meta stage with no target returns without recording a Run and without
\* calling the downloader; the media stage has no target set before the call:
\* it always begins a Run with target_count NULL and calls the downloader
C22_OnlySubsRecordsZeroRun ==
    [][/\ StageStartsEmpty("media_start", local.skip_media, MediaCandidates)
            => /\ Len(download_runs') = Len(download_runs) + 1
               /\ download_runs'[Len(download_runs')].stage = "media"
               /\ download_runs'[Len(download_runs')].target_count = Null
               /\ download_runs'[Len(download_runs')].status = "running"
               /\ pc' = "media_call"
       /\ StageStartsEmpty("subs_start", local.skip_subs, SubtitleTargetIds)
            => ZeroTargetRunRecorded("subs")
       /\ StageStartsEmpty("meta_start", local.skip_meta, MetadataTargetIds)
            => /\ download_runs' = download_runs
               /\ pc' \notin CallPcs]_vars

C22_Witness ==
    /\ local.result = "returned"
    /\ ~local.skip_subs /\ ~local.skip_meta /\ ~local.skip_media
    /\ local.stage = "subs"
    /\ local.targets = {}
    /\ download_runs # <<>>
    /\ download_runs[Len(download_runs)].stage = "subs"
    /\ download_runs[Len(download_runs)].target_count = Some(0)

\* ---------------------------------------------------------------- C23
\* the alternate-format re-downloads issued by the audio check of this invocation
RepairDownloads ==
    SumOver([v \in DOMAIN local.audio_check |-> local.audio_check[v].downloads],
            DOMAIN local.audio_check)

\* how often the downloader was run in a stage of the current invocation
DownloaderCalls(stage) ==
    local.batch_calls[stage] + (IF stage = "media" THEN RepairDownloads ELSE 0)

\* C23 (as stated): within one sync_source invocation the downloader is run
\* once per stage for the whole batch, never once per item
C23_OneDownloaderCallPerStage ==
    \A stage \in StageSet : DownloaderCalls(stage) <= 1

\* C23 (amended): the batch call of a stage is issued at most once per
\* invocation, whatever the number of targets, and it is the only downloader
\* call of the subs and meta stages; the media stage also runs the downloader
\* once or twice per item for each item its audio check re-downloads
C23_OneBatchCallPerStage ==
    /\ \A stage \in StageSet : local.batch_calls[stage] <= 1
    /\ DownloaderCalls("subs") = local.batch_calls["subs"]
    /\ DownloaderCalls("meta") = local.batch_calls["meta"]
    /\ \A v \in DOMAIN local.audio_check : local.audio_check[v].downloads <= 2
    /\ pc \in {"media_check", "subs_classify", "meta_classify"}
          => local.batch_calls[local.stage] = 1

C23_Witness ==
    /\ pc = "subs_classify"
    /\ Cardinality(local.targets) >= 2
    /\ local.batch_calls["subs"] = 1
    /\ DownloaderCalls("media") >= 2

\* ---------------------------------------------------------------- C24
ClassifyPcs == {"media_check", "subs_classify", "meta_classify"}

\* the targets of the stage being classified that have no evidence after the call
TargetsWithoutEvidence ==
    IF pc = "media_check" THEN local'.media_audio_fallback_failures
    ELSE IF pc = "subs_classify"
    THEN {v \in local.targets : v \notin ReadArchiveIds(subs_archive) \cup ScanSubtitles}
    ELSE {v \in local.targets : v \notin ListMetaIds}

NextStagePc ==
    IF pc = "media_check" THEN "subs_start"
    ELSE IF pc = "subs_classify" THEN "meta_start" ELSE ReturnPc

\* C24: a nonzero exit or exception of the downloader does not leave the
\* stage: the call step hands over to the classification, the classification
\* can always be taken and finishes the stage's Run, every target without
\* evidence gets status=error with a next_retry_at, and the invocation goes
\* on to the next stage
C24_ToolFailureStaysInStage ==
    /\ [][(pc \in CallPcs /\ local'.result # "crashed")
             => pc' \in ClassifyPcs]_vars
    /\ [][(pc \in ClassifyPcs /\ local.exit_code # 0 /\ local'.result # "crashed")
             => /\ download_runs'[Val(local.run_id)].status \in {"success", "error"}
                /\ download_runs'[Val(local.run_id)].finished_at # Null
                /\ download_runs'[Val(local.run_id)].exit_code = Some(local.exit_code)
                /\ \A v \in TargetsWithoutEvidence :
                      LET row == download_state'[<<Src, local.stage, v>>]
                      IN /\ row.status = "error"
                         /\ ~IsNull(row.next_retry_at)
                /\ pc' = NextStagePc]_vars
    /\ [](pc \in ClassifyPcs => ENABLED SyncSteps)

C24_Witness ==
    /\ pc = "meta_start"
    /\ local.stage = "subs"
    /\ local.exit_code # 0
    /\ local.cmd_error
    /\ local.targets # {}
    /\ download_runs[Val(local.run_id)].status = "error"
    /\ \A v \in local.targets :
          /\ download_state[<<Src, "subs", v>>].status = "error"
          /\ ~IsNull(download_state[<<Src, "subs", v>>].next_retry_at)

\* ---------------------------------------------------------------- C25
\* the sync command on a source for which build_video_url raises ValueError
\* (no video_url_template, and no handle or a platform other than tiktok)
SyncStartNoUrl ==
    /\ pc = "idle"
    /\ \E skip_media, skip_subs, skip_meta, ffprobe \in BOOLEAN, ledger \in LedgerModes :
          SyncEnter([Options("sync", skip_media, skip_subs, skip_meta, ffprobe, ledger)
                        EXCEPT !.url_ok = FALSE],
                    OptionCost(skip_media, skip_subs, skip_meta, ffprobe, ledger),
                    now, Null, 1, PlaylistEnd)
    /\ UNCHANGED now

\* the url list of the subtitle targets is built with build_video_url, which
\* raises: sync_source is left before the run of the stage is begun
SubsRaise ==
    /\ pc = "subs_start"
    /\ ~local.skip_subs
    /\ SubtitleTargetIds # {}
    /\ ~local.url_ok
    /\ local' = [local EXCEPT !.subs_before = ReadArchiveIds(subs_archive),
                              !.targets = SubtitleTargetIds, !.stage = "subs",
                              !.result = "raised"]
    /\ pc' = "idle"
    /\ UNCHANGED <<now, files, download_state, download_runs, backfill_state, videos,
                   remote_len, dependents, urls_file, anomalies>>

\* the same for the url list of the metadata targets
MetaRaise ==
    /\ pc = "meta_start"
    /\ ~local.skip_meta
    /\ MetadataArchiveIds # {}
    /\ MetadataTargetIds # {}
    /\ ~local.url_ok
    /\ local' = [local EXCEPT !.targets = MetadataTargetIds, !.stage = "meta",
                              !.result = "raised"]
    /\ pc' = "idle"
    /\ UNCHANGED <<now, files, download_state, download_runs, backfill_state, videos,
                   remote_len, dependents, urls_file, anomalies>>

NextUrl ==
    \/ SyncStart
    \/ SyncStartNoUrl
    \/ SyncSteps
    \/ SubsRaise
    \/ MetaRaise
    \/ LedgerBuild
    \/ Crash
    \/ Tick

SpecUrl == Init /\ [][NextUrl]_vars

\* C25 (as stated): when build_video_url fails, the subs and meta batches
\* still run for their targets and sync_source does not raise
C25_UrlFailureNeverAborts ==
    [][(~local.url_ok /\ pc \in {"subs_start", "meta_start"}
            /\ local'.result # "crashed")
          => /\ local'.result # "raised"
             /\ pc' # "idle" \/ local'.result = "returned"]_vars

\* ---------------------------------------------------------------- C26
\* --dry-run: main() opens no database connection for sync, and every write
\* of sync_source and run_backfill is guarded by the flag
BootstrapMissingArchivesAlways(archive, scanned, dry_run) == BootstrapArchive(archive, scanned)

BootstrapMissingArchives(archive, scanned, dry_run) ==
    IF dry_run THEN archive ELSE BootstrapArchive(archive, scanned)

WriteUrlsFileAlways(current, targets, dry_run) == WriteUrlsFile(targets)

WriteUrlsFileUnlessDryRun(current, targets, dry_run) ==
    IF dry_run THEN current ELSE WriteUrlsFile(targets)

DrySyncStart ==
    /\ pc = "idle"
    /\ media_archive' = BootstrapMissingArchives(media_archive, ScanMediaFiles, TRUE)
    /\ subs_archive' = BootstrapMissingArchives(subs_archive, ScanSubtitles, TRUE)
    /\ \E skip_media, skip_subs, skip_meta \in BOOLEAN :
          /\ Spend(OptionCost(skip_media, skip_subs, skip_meta, TRUE, "incremental"))
          /\ local' = [Options("sync", skip_media, skip_subs, skip_meta, TRUE, "incremental")
                          EXCEPT !.dry_run = TRUE, !.result = "running",
                                 !.media_before = ReadArchiveIds(media_archive')]
    /\ pc' = "dry_media"
    /\ UNCHANGED <<now, media_files, sub_files, meta_files, download_state, download_runs,
                   backfill_state, videos, remote_len, dependents, urls_file>>

\* run_command prints the media command and returns 0; no run is begun, no
\* audio check is made and no state is upserted
DryMedia ==
    /\ pc = "dry_media"
    /\ local' = IF local.skip_media THEN [local EXCEPT !.stage = "media"]
                ELSE [local EXCEPT !.stage = "media",
                                   !.media_after = ReadArchiveIds(media_archive),
                                   !.new_media_ids =
                                       ReadArchiveIds(media_archive) \ local.media_before]
    /\ pc' = "dry_subs"
    /\ UNCHANGED <<now, files, download_state, download_runs, backfill_state, videos,
                   remote_len, dependents, urls_file, anomalies>>

\* the subtitle targets without the retry state (no connection); the url
\* list is not written and the command is only printed
DrySubtitleTargetIds ==
    {v \in CandidateIds(local.new_media_ids) :
        v \notin ReadArchiveIds(subs_archive) /\ v \notin ScanSubtitles}

DrySubs ==
    /\ pc = "dry_subs"
    /\ local' = IF local.skip_subs THEN [local EXCEPT !.stage = "subs"]
                ELSE [local EXCEPT !.stage = "subs", !.targets = DrySubtitleTargetIds,
                                   !.subs_before = ReadArchiveIds(subs_archive)]
    /\ urls_file' = IF local.skip_subs \/ DrySubtitleTargetIds = {} THEN urls_file
                    ELSE WriteUrlsFileUnlessDryRun(urls_file, DrySubtitleTargetIds, TRUE)
    /\ pc' = "dry_meta"
    /\ UNCHANGED <<now, files, download_state, download_runs, backfill_state, videos,
                   remote_len, dependents, anomalies>>

DryMetadataTargetIds == {v \in MetadataArchiveIds : v \notin ListMetaIds}

DryMeta ==
    /\ pc = "dry_meta"
    /\ local' = IF local.skip_meta THEN [local EXCEPT !.stage = "meta", !.result = "dry-run"]
                ELSE [local EXCEPT !.stage = "meta", !.targets = DryMetadataTargetIds,
                                   !.result = "dry-run"]
    /\ urls_file' = IF local.skip_meta \/ DryMetadataTargetIds = {} THEN urls_file
                    ELSE WriteUrlsFileUnlessDryRun(urls_file, DryMetadataTargetIds, TRUE)
    /\ pc' = "idle"
    /\ UNCHANGED <<now, files, download_state, download_runs, backfill_state, videos,
                   remote_len, dependents, anomalies>>

\* run_backfill --dry-run: the cursor row is neither ensured nor updated
DryBackfillStart ==
    /\ pc = "idle"
    /\ \E windows \in 1 .. MaxWindowsPerRun :
          /\ Spend(windows - 1)
          /\ local' = [Options("backfill", FALSE, FALSE, FALSE, TRUE, "incremental")
                          EXCEPT !.dry_run = TRUE, !.result = "running",
                                 !.next_start = GetDefaultBackfillStart,
                                 !.window_size = Max(1, BackfillWindow),
                                 !.windows_per_run = windows]
    /\ pc' = "dry_bf_window"
    /\ UNCHANGED <<now, files, download_state, download_runs, backfill_state, videos,
                   remote_len, dependents, urls_file>>

\* one window: the discovery command is printed, the sync is skipped
DryBackfillWindow ==
    /\ pc = "dry_bf_window"
    /\ IF local.window_index < local.windows_per_run
       THEN /\ local' = [local EXCEPT !.window_index = @ + 1,
                                      !.next_start = @ + local.window_size]
            /\ pc' = "dry_bf_window"
       ELSE /\ local' = [local EXCEPT !.result = "dry-run"]
            /\ pc' = "idle"
    /\ UNCHANGED <<now, files, download_state, download_runs, backfill_state, videos,
                   remote_len, dependents, urls_file, anomalies>>

NextDry ==
    \/ BackfillStart
    \/ BfDiscover
    \/ SyncSteps
    \/ BfUpdate
    \/ LedgerBuild
    \/ DrySyncStart
    \/ DryMedia
    \/ DrySubs
    \/ DryMeta
    \/ DryBackfillStart
    \/ DryBackfillWindow
    \/ Crash
    \/ Tick

SpecDry == InitBackfill /\ [][NextDry]_vars

\* what the claim calls persistent: the tables, the archives, the url list
Persistent ==
    <<download_runs, download_state, backfill_state, videos, dependents,
      media_archive, subs_archive, urls_file>>

MarkedBy(ds, stage, run_id, status) ==
    {k \in DOMAIN ds : /\ k[1] = Src /\ k[2] = stage
                       /\ ds[k].last_run_id = Some(run_id)
                       /\ ds[k].status = status}

\* the step finishes run r with counts
FinishesRun(r) ==
    /\ download_runs[r].status = "running"
    /\ download_runs'[r].status # "running"
    /\ ~IsNull(download_runs'[r].success_count)

\* C27: when a stage Run is finished, its success_count is the number of
\* items whose RetryRecord the run set to success and its failure_count the
\* number it set to error
C27_RunCountsMatchRecords ==
    [][\A r \in DOMAIN download_runs :
          FinishesRun(r)
             => LET run == download_runs'[r]
                IN /\ run.success_count =
                        Some(Cardinality(MarkedBy(download_state', run.stage, r, "success")))
                   /\ run.failure_count =
                        Some(Cardinality(MarkedBy(download_state', run.stage, r, "error")))]_vars

\* the scenario of the claim: archive {1,2} before, {1,2,3,4} after
C27_Witness ==
    /\ pc = "subs_start"
    /\ local.media_before = {1, 2}
    /\ local.media_after = {1, 2, 3, 4}
    /\ local.new_media_ids = {3, 4}
    /\ \A v \in {3, 4} : /\ <<Src, "media", v>> \in DOMAIN download_state
                          /\ download_state[<<Src, "media", v>>].status = "success"
                          /\ download_state[<<Src, "media", v>>].last_run_id = local.run_id
    /\ download_runs[Val(local.run_id)].success_count = Some(2)
    /\ download_runs[Val(local.run_id)].failure_count = Some(0)

\* ---------------------------------------------------------------- C28
IsCrashStep == pc # "idle" /\ pc' = "idle" /\ local'.result = "crashed"

\* the targets of the interrupted stage for which the call left evidence
TargetsWithEvidence ==
    IF pc = "subs_classify"
    THEN {v \in local.targets : v \in ReadArchiveIds(subs_archive) \cup ScanSubtitles}
    ELSE IF pc = "meta_classify" THEN {v \in local.targets : v \in ListMetaIds}
    ELSE ReadArchiveIds(media_archive) \ local.media_before

RecordsOfRun(ds, run_id) == {k \in DOMAIN ds : ds[k].last_run_id = Some(run_id)}

\* C28 (as stated): the per-item upserts are a checkpoint of their own: a
\* crash after the items were classified and before run-finish leaves their
\* RetryRecords marked by the run while the Run is still running
C28_UpsertsSurviveCrash ==
    [][(IsCrashStep /\ pc \in ClassifyPcs)
          => /\ download_runs'[Val(local.run_id)].status = "running"
             /\ \A v \in TargetsWithEvidence :
                   <<Src, local.stage, v>> \in RecordsOfRun(download_state',
                                                            Val(local.run_id))]_vars

\* C28 (amended): a stage has two checkpoints, run-begin and the item upserts
\* together with run-finish: no RetryRecord is marked by a Run that is still
\* running, a crash changes neither table and leaves the Run running, and
\* the recovery step of the next invocation closes every running Run
C28_UpsertsCommitWithFinish ==
    /\ [](\A r \in DOMAIN download_runs :
             download_runs[r].status = "running" => RecordsOfRun(download_state, r) = {})
    /\ [][IsCrashStep => /\ download_state' = download_state
                         /\ download_runs' = download_runs]_vars
    /\ [][(pc = "idle" /\ pc' = "media_start")
             => \A r \in DOMAIN download_runs' : download_runs'[r].status # "running"]_vars

C28_Witness ==
    /\ local.result = "crashed"
    /\ \E r \in DOMAIN download_runs :
          /\ download_runs[r].status = "running"
          /\ download_runs[r].stage = "subs"
          /\ \E v \in ScanSubtitles : <<Src, "subs", v>> \notin DOMAIN download_state

\* ---------------------------------------------------------------- C29
\* get_due_retry_ids on its own: SELECT video_id ... WHERE source_id, stage,
\* status = 'error', next_retry_at IS NULL OR <= now ORDER BY updated_at ASC
\* LIMIT ?; rows with equal updated_at come in any order
DefaultDueLimit == 200

RECURSIVE Orderings(_)
Orderings(S) ==
    IF S = {} THEN {<<>>}
    ELSE UNION {{<<x>> \o q : q \in Orderings(S \ {x})} : x \in S}

Prefix(q, n) == SubSeq(q, 1, Min(n, Len(q)))

\* the rows are returned newest update first
GetDueRetryIdsNewestFirst(ds, source_id, stage, now_value, limit) ==
    LET due == GetDueRetryIds(ds, source_id, stage, now_value)
        at(v) == ds[Key(source_id, stage, v)].updated_at
    IN {Prefix(q, limit) :
          q \in {o \in Orderings(due) :
                    \A i, j \in DOMAIN o : i < j => at(o[i]) >= at(o[j])}}

GetDueRetryIdsLimit(ds, source_id, stage, now_value, limit) ==
    LET due == GetDueRetryIds(ds, source_id, stage, now_value)
        at(v) == ds[Key(source_id, stage, v)].updated_at
    IN {Prefix(q, limit) :
          q \in {o \in Orderings(due) :
                    \A i, j \in DOMAIN o : i < j => at(o[i]) <= at(o[j])}}

DueIds == 1 .. 3

DueRows ==
    {[status |-> "success", retry_count |-> 0, last_error |-> Null,
      last_attempt_at |-> 0, next_retry_at |-> Null, last_run_id |-> Null,
      updated_at |-> 0]}
    \cup {[status |-> "error", retry_count |-> 1, last_error |-> Some("command exit code"),
           last_attempt_at |-> u, next_retry_at |-> t, last_run_id |-> Null,
           updated_at |-> u]
          : t \in {Null, Some(0), Some(BackoffBaseSeconds)}, u \in 0 .. 2}

DueDecoys ==
    [k \in {Key(Src, "meta", 1), Key("beta", "subs", 2)} |->
        [status |-> "error", retry_count |-> 1, last_error |-> Some("command exit code"),
         last_attempt_at |-> 0, next_retry_at |-> Null,
         last_run_id |-> Null, updated_at |-> 0]]

DueStores ==
    UNION {{[k \in S \cup D |-> IF k \in S THEN f[k] ELSE DueDecoys[k]]
                : f \in [S -> DueRows]}
           : S \in SUBSET {Key(Src, "subs", v) : v \in DueIds},
             D \in {{}, DOMAIN DueDecoys}}

InitDue ==
    /\ now \in {0, BackoffBaseSeconds}
    /\ media_archive = NoArchive
    /\ subs_archive = NoArchive
    /\ media_files = [v \in VideoIds |-> "none"]
    /\ sub_files = {}
    /\ meta_files = {}
    /\ download_state \in DueStores
    /\ download_runs = <<>>
    /\ backfill_state = EmptyFn
    /\ videos = EmptyFn
    /\ remote_len = MaxId
    /\ dependents = {}
    /\ urls_file = {}
    /\ pc = "idle"
    /\ local = BlankLocal
    /\ anomalies = 0

\* one call of get_due_retry_ids(connection, source, "subs", limit)
DueCall ==
    /\ pc = "idle"
    /\ \E limit \in {1, 2, DefaultDueLimit} :
          \E out \in GetDueRetryIdsLimit(download_state, Src, "subs", now, limit) :
             local' = [BlankLocal EXCEPT !.mode = "due", !.due_limit = limit,
                                         !.due_out = Some(out)]
    /\ UNCHANGED <<now, files, download_state, download_runs, backfill_state, videos,
                   remote_len, dependents, urls_file, pc, anomalies>>

SpecDue == InitDue /\ [][DueCall]_vars

\* the record of (Src, "subs", v) is an error whose retry time is null or elapsed
IsDueRecord(v) ==
    LET k == <<Src, "subs", v>>
    IN /\ k \in DOMAIN download_state
       /\ download_state[k].status = "error"
       /\ \/ download_state[k].next_retry_at = Null
          \/ Val(download_state[k].next_retry_at) <= now

\* C29: get_due_retry_ids returns exactly the error records of the source and
\* stage whose next_retry_at is null or not later than now, oldest update
\* first, truncated to at most limit ids
C29_DueRetryIdsExact ==
    ~IsNull(local.due_out) =>
        LET out == Val(local.due_out)
            due == {v \in DueIds : IsDueRecord(v)}
            at(v) == download_state[<<Src, "subs", v>>].updated_at
            returned == {out[i] : i \in DOMAIN out}
        IN /\ \A i \in DOMAIN out : out[i] \in due
           /\ \A i, j \in DOMAIN out : i # j => out[i] # out[j]
           /\ Len(out) = Min(local.due_limit, Cardinality(due))
           /\ \A i, j \in DOMAIN out : i < j => at(out[i]) <= at(out[j])
           /\ \A v \in due \ returned : \A i \in DOMAIN out : at(out[i]) <= at(v)
           /\ local.due_limit = DefaultDueLimit
                 => returned = GetDueRetryIds(download_state, Src, "subs", now)

C29_Witness ==
    /\ ~IsNull(local.due_out)
    /\ local.due_limit = 2
    /\ Len(Val(local.due_out)) = 2
    /\ Cardinality({v \in DueIds : IsDueRecord(v)}) = 3
    /\ download_state[<<Src, "subs", Val(local.due_out)[1]>>].updated_at
          < download_state[<<Src, "subs", Val(local.due_out)[2]>>].updated_at
    /\ <<"beta", "subs", 2>> \in DOMAIN download_state

\* ---------------------------------------------------------------- C30
\* schedule_next_retry_iso as the pipeline calls it: with the stored
\* retry_count of the record plus one, at the clock of the failure
MaxRetryCount == 22
DelayClocks == {0, 1, CallSeconds + 1, TickSeconds, BackoffBaseSeconds}

DelayKey == Key(Src, "meta", 1)

InitDelay ==
    /\ now \in DelayClocks
    /\ media_archive = NoArchive
    /\ subs_archive = NoArchive
    /\ media_files = [v \in VideoIds |-> "none"]
    /\ sub_files = {}
    /\ meta_files = {}
    /\ download_state \in {EmptyFn, UpsertSuccess(EmptyFn, Src, "meta", 1, Null, 0)}
    /\ download_runs = <<>>
    /\ backfill_state = EmptyFn
    /\ videos = EmptyFn
    /\ remote_len = MaxId
    /\ dependents = {}
    /\ urls_file = {}
    /\ pc = "idle"
    /\ local = BlankLocal
    /\ anomalies = 0

\* one more failure of the item is recorded
DelayCall ==
    /\ pc = "idle"
    /\ StoredRetryCount(download_state, DelayKey) < MaxRetryCount
    /\ download_state' = UpsertFailure(download_state, Src, "meta", 1, Null, now,
                                       "command exit code", now)
    /\ local' = [BlankLocal EXCEPT !.mode = "delay"]
    /\ UNCHANGED <<now, files, download_runs, backfill_state, videos,
                   remote_len, dependents, urls_file, pc, anomalies>>

SpecDelay == InitDelay /\ [][DelayCall]_vars

\* the delay that was added to the clock when the record was scheduled
ScheduledDelay(ds) == Val(ds[DelayKey].next_retry_at) - now

IsScheduled(ds) == DelayKey \in DOMAIN ds /\ ds[DelayKey].status = "error"

\* C30: for every retry_count the pipeline passes (stored count plus one,
\* so at least 1) the delay is min(300 * 2^(retry_count-1), 86400) seconds,
\* it never exceeds 86400 and never decreases when retry_count grows
C30_BackoffDelay ==
    /\ [](IsScheduled(download_state)
            => /\ download_state[DelayKey].retry_count >= 1
               /\ ScheduledDelay(download_state)
                     = Min(BackoffBaseSeconds * 2 ^ (download_state[DelayKey].retry_count - 1),
                           BackoffCapSeconds)
               /\ ScheduledDelay(download_state) <= BackoffCapSeconds)
    /\ [][(IsScheduled(download_state) /\ IsScheduled(download_state'))
             => /\ download_state'[DelayKey].retry_count
                      = download_state[DelayKey].retry_count + 1
                /\ ScheduledDelay(download_state') >= ScheduledDelay(download_state)]_vars

C30_Witness ==
    /\ local.mode = "delay"
    /\ IsScheduled(download_state)
    /\ download_state[DelayKey].retry_count = MaxRetryCount
    /\ ScheduledDelay(download_state) = BackoffCapSeconds
    /\ BackoffBaseSeconds * 2 ^ (MaxRetryCount - 1) > BackoffCapSeconds

\* ---------------------------------------------------------------- C31
\* an archive file is deleted between two invocations, its stage's files stay
ArchiveRemoved ==
    /\ pc = "idle"
    /\ Spend(1)
    /\ \/ /\ media_archive.exists
          /\ media_archive' = NoArchive
          /\ UNCHANGED subs_archive
       \/ /\ subs_archive.exists
          /\ subs_archive' = NoArchive
          /\ UNCHANGED media_archive
    /\ local' = [BlankLocal EXCEPT !.result = "archive removed"]
    /\ UNCHANGED <<now, media_files, sub_files, meta_files, download_state, download_runs,
                   backfill_state, videos, remote_len, dependents, urls_file, pc>>

NextBootstrap ==
    \/ SyncStart
    \/ SyncSteps
    \/ LedgerBuild
    \/ RunLoudness
    \/ ArchiveRemoved
    \/ Crash
    \/ Tick

SpecBootstrap == InitBackfill /\ [][NextBootstrap]_vars

IsSyncEntry == pc = "idle" /\ pc' = "media_start"

\* sync_source writes an absent archive from the scan and leaves an existing one
BootstrapStep ==
    /\ media_archive' = (IF media_archive.exists THEN media_archive
                         ELSE WriteArchiveIds(media_archive, ScanMediaFiles))
    /\ subs_archive' = (IF subs_archive.exists THEN subs_archive
                        ELSE WriteArchiveIds(subs_archive, ScanSubtitles))
    /\ ReadArchiveIds(media_archive') = (IF media_archive.exists THEN media_archive.ids
                                         ELSE ScanMediaFiles)
    /\ local'.media_before = ReadArchiveIds(media_archive')

\* no bootstrapped id is new or a candidate of its stage's batch download
BootstrappedNeverNew ==
    InvocationOpen =>
        /\ local.bootstrapped_media \subseteq local.media_before
        /\ local.bootstrapped_media \cap local.new_media_ids = {}
        /\ (pc = "media_call" => local.bootstrapped_media \cap MediaCandidates = {})
        /\ (pc \in {"subs_call", "subs_classify", "meta_start"}
              => local.bootstrapped_subs \subseteq local.subs_before)
        /\ (pc = "meta_start"
              => local.bootstrapped_subs \cap (local.subs_after \ local.subs_before) = {})

\* the audio repair has re-downloaded no bootstrapped id
BootstrappedNeverRedownloaded ==
    InvocationOpen =>
        \A v \in local.bootstrapped_media \cap DOMAIN local.audio_check :
            local.audio_check[v].downloads = 0

RunningRuns(stage) ==
    {r \in DOMAIN download_runs :
        /\ download_runs[r].source_id = Src
        /\ download_runs[r].stage = stage
        /\ download_runs[r].status = "running"}

IsBeginStep == Len(download_runs') > Len(download_runs)

\* C32: with one writer, the stored runs never hold more than one running Run
\* per (source, stage), because every begin finds all earlier runs of the
\* source closed by the recovery pass or by their own finish
C32_AtMostOneRunningRun ==
    /\ [](\A stage \in StageSet : Cardinality(RunningRuns(stage)) <= 1)
    /\ [][IsBeginStep => \A stage \in StageSet : RunningRuns(stage) = {}]_vars

C32_Witness ==
    /\ pc = "subs_call"
    /\ Cardinality(RunningRuns("subs")) = 1
    /\ \E r \in DOMAIN download_runs :
          /\ download_runs[r].stage = "subs"
          /\ download_runs[r].status = "error"
          /\ download_runs[r].exit_code = Some(InterruptedExitCode)
          /\ download_runs[r].error_message = Some("interrupted previous run")

\* ---------------------------------------------------------------- C33
\* the record of the item is an error whose retry is scheduled after the clock
InBackoff(ds, stage, v, clock) ==
    LET k == Key(Src, stage, v)
    IN /\ HasRow(ds, k)
       /\ ds[k].status = "error"
       /\ ~IsBlank(ds[k].next_retry_at)
       /\ Val(ds[k].next_retry_at) > clock

\* the ids the audio check of this step has taken as its targets
AudioTargets == IF IsMediaCheckStep THEN DOMAIN local'.audio_check ELSE {}

BatchRespectsBackoff ==
    /\ pc = "subs_call" => \A v \in local.targets : ~InBackoff(download_state, "subs", v, now)
    /\ pc = "meta_call" => \A v \in local.targets : ~InBackoff(download_state, "meta", v, now)

C34_RetryCountCountsConsecutiveFailures ==
    [][/\ \A k \in DOMAIN download_state :
             download_state[k].status = "error"
                => /\ k \in DOMAIN download_state'
                   /\ download_state'[k].status = "error"
                         => /\ download_state'[k].retry_count
                                  \in {download_state[k].retry_count,
                                       download_state[k].retry_count + 1}
                            /\ DelaySeconds(download_state'[k].retry_count)
                                  >= DelaySeconds(download_state[k].retry_count)
       /\ \A k \in DOMAIN download_state' :
             /\ download_state'[k].status = "error"
             /\ (k \in DOMAIN download_state => download_state[k].status = "success")
             => download_state'[k].retry_count = 1]_vars

\* ---------------------------------------------------------------- C35
\* where the next invocation without reset starts: the stored cursor, or the
\* default start when no cursor row is stored
CursorStart(bs) == IF Src \in DOMAIN bs THEN bs[Src].next_start ELSE GetDefaultBackfillStart

CursorActive(bs) == Src \in DOMAIN bs => bs[Src].status = "active"

InWindowSync == local.mode = "backfill" /\ pc \in SyncPcs

\* the stored cursor stands at the start of the window being synchronised
CursorAtWindowStart(bs) == CursorStart(bs) = local.next_start /\ CursorActive(bs)

\* the reset of this invocation is not committed yet
ResetPending == local.reset /\ ~IsNull(local.pending) /\ local.window_index = 0

IsBackfillEntry == pc = "idle" /\ pc' = "bf_discover"

\* C35 as stated: a crash at any point of the sync of a window leaves the stored
\* cursor at the start of that window, and the next invocation takes that window
C35_CrashLeavesCursorAtWindowStart ==
    /\ [][(IsCrashStep /\ InWindowSync) => CursorAtWindowStart(backfill_state')]_vars
    /\ [][(IsBackfillEntry /\ ~local'.reset)
            => local'.next_start = CursorStart(backfill_state)]_vars

\* C35 amended: the cursor is never past the window at a crash; it is at the
\* window's start unless the crash comes before the first commit of an
\* invocation with reset, whose reset is then lost
C35_CrashNeverAdvancesCursor ==
    /\ [][(IsCrashStep /\ InWindowSync)
            => \/ CursorAtWindowStart(backfill_state')
               \/ ResetPending /\ backfill_state' = backfill_state]_vars
    /\ [][(IsBackfillEntry /\ ~local'.reset)
            => local'.next_start = CursorStart(backfill_state)]_vars

C35_Witness ==
    /\ local.result = "crashed"
    /\ pc = "idle"
    /\ Src \in DOMAIN backfill_state
    /\ backfill_state[Src].status = "active"
    /\ backfill_state[Src].next_start = GetDefaultBackfillStart + Max(1, BackfillWindow)
    /\ \E r \in DOMAIN download_runs :
          /\ download_runs[r].status = "running"
          /\ download_runs[r].started_at > backfill_state[Src].updated_at

\* ---------------------------------------------------------------- C36
AbsorbedFields(bs) == <<bs[Src].status, bs[Src].next_start, bs[Src].completed_at>>

IsBackfillCommand ==
    /\ pc = "idle"
    /\ now' = now
    /\ local'.mode = "backfill"
    /\ local'.result \in {"completed", "running"}

\* C36: a backfill invocation without reset on a completed cursor runs no
\* discovery and no synchronisation and leaves status, next_start and
\* completed_at as they are; only an invocation with reset leaves completed,
\* and it starts again as active at the default start
C36_CompletedIsAbsorbing ==
    /\ [][(IsBackfillCommand /\ Completed(backfill_state) /\ ~local'.reset)
            => /\ pc' = "idle"
               /\ local'.result = "completed"
               /\ UNCHANGED <<backfill_state, files, download_state, download_runs,
                              videos, urls_file>>]_vars
    /\ [][(IsBackfillCommand /\ Completed(backfill_state) /\ local'.reset)
            => /\ pc' = "bf_discover"
               /\ local'.next_start = GetDefaultBackfillStart
               /\ PendingBs'[Src].status = "active"]_vars
    /\ [][(/\ Completed(backfill_state)
           /\ \/ Src \notin DOMAIN backfill_state'
              \/ AbsorbedFields(backfill_state') # AbsorbedFields(backfill_state))
            => local.mode = "backfill" /\ local.reset]_vars

C36_Witness ==
    /\ pc = "idle"
    /\ local.mode = "backfill"
    /\ local.result = "completed"
    /\ Completed(backfill_state)
    /\ backfill_state[Src].next_start > GetDefaultBackfillStart
    /\ download_runs # <<>>

\* ---------------------------------------------------------------- C37
\* a later backfill command without reset
BackfillAgain == BackfillStart /\ ~local'.reset

LiveCrashRuns == 2

\* a crash on a short playlist, early enough that the runs of the commands
\* after it stay within MaxRuns
LiveCrash ==
    /\ remote_len <= ShortPlaylist
    /\ Len(download_runs) <= LiveCrashRuns
    /\ Crash

\* backfill commands are repeated without reset; a command crashes and
\* discovery fails only as often as the deviations allow
NextLive ==
    \/ BackfillAgain
    \/ BfDiscover
    \/ SyncSteps
    \/ BfUpdate
    \/ LedgerBuild
    \/ LiveCrash

SpecLive == InitBackfill /\ [][NextLive]_vars /\ WF_vars(NextLive)

\* C37: on a finite playlist whose discovery does not fail forever, repeated
\* backfill invocations bring the cursor to completed, and every invocation
\* ends after at most windows_per_run windows
C37_BackfillCompletes ==
    /\ <>[]Completed(backfill_state)
    /\ [](local.mode = "backfill" => local.window_index <= local.windows_per_run)
    /\ [](pc = "bf_discover" => local.window_index < local.windows_per_run)
    /\ (pc # "idle") ~> (pc = "idle")

C37_Witness ==
    /\ pc = "idle"
    /\ Completed(backfill_state)
    /\ backfill_state[Src].next_start > GetDefaultBackfillStart + Max(1, BackfillWindow)
    /\ backfill_state[Src].last_seen_count = Some(0)
    /\ anomalies > 0

\* ---------------------------------------------------------------- C38
\* the limit of get_due_retry_ids, scaled to the three ids of the store
StarveLimit == 2

\* the stages whose due retries are followed: a batch stage and the media stage
StarveStages == {"subs", "media"}

StarveStores(stage) ==
    UNION {[S -> DueRows] : S \in SUBSET {Key(Src, stage, v) : v \in DueIds}}

\* records written by earlier invocations: every updated_at is before the clock
InitStarve ==
    /\ now = BackoffBaseSeconds
    /\ media_archive = NoArchive
    /\ subs_archive = NoArchive
    /\ media_files = [v \in VideoIds |-> "none"]
    /\ sub_files = {}
    /\ meta_files = {}
    /\ \E stage \in StarveStages :
          /\ download_state \in StarveStores(stage)
          /\ local = [BlankLocal EXCEPT !.stage = stage]
    /\ download_runs = <<>>
    /\ backfill_state = EmptyFn
    /\ videos = EmptyFn
    /\ remote_len = MaxId
    /\ dependents = {}
    /\ urls_file = {}
    /\ pc = "idle"
    /\ anomalies = 0

\* the due retries of one invocation of a stage: at most limit ids are taken,
\* oldest update first; every taken id is classified and upserted, except in
\* the media stage without ffprobe, where the audio check of the targets is skipped
RetryInvocation ==
    /\ pc = "idle"
    /\ \E out \in GetDueRetryIdsLimit(download_state, Src, local.stage, now, StarveLimit),
          ffprobe \in BOOLEAN :
          LET taken == {out[i] : i \in DOMAIN out}
              base == [BlankLocal EXCEPT !.mode = "retry", !.targets = taken,
                                         !.started_at = now, !.stage = local.stage,
                                         !.ffprobe = ffprobe]
          IN /\ taken # {}
             /\ local' = base
             /\ IF local.stage = "media" /\ ~ffprobe
                THEN /\ Spend(1)
                     /\ UNCHANGED download_state
                ELSE /\ ffprobe
                     /\ \E failed \in SUBSET taken :
                           /\ Spend(Cardinality(failed))
                           /\ download_state' = UpsertAll(
                                  download_state, Src, local.stage, taken \ failed,
                                  [v \in failed |-> "no evidence after the attempt"],
                                  Null, now, now + CallSeconds)
    /\ now' = now + CallSeconds
    /\ UNCHANGED <<files, download_runs, backfill_state, videos, remote_len, dependents,
                   urls_file, pc>>

\* the retry times still ahead of the clock
PendingRetryTimes ==
    {Val(download_state[k].next_retry_at) :
        k \in {x \in DOMAIN download_state :
                  /\ download_state[x].status = "error"
                  /\ download_state[x].next_retry_at # Null
                  /\ Val(download_state[x].next_retry_at) > now}}

\* nothing is due: time passes until the next scheduled retry
RetryWait ==
    /\ pc = "idle"
    /\ GetDueRetryIds(download_state, Src, local.stage, now) = {}
    /\ PendingRetryTimes # {}
    /\ now' = CHOOSE t \in PendingRetryTimes : \A u \in PendingRetryTimes : t <= u
    /\ local' = [BlankLocal EXCEPT !.mode = "wait", !.stage = local.stage]
    /\ UNCHANGED <<files, download_state, download_runs, backfill_state, videos,
                   remote_len, dependents, urls_file, pc, anomalies>>

NextStarve ==
    \/ RetryInvocation
    \/ RetryWait

SpecStarve == InitStarve /\ [][NextStarve]_vars /\ WF_vars(NextStarve)

IsRetryInvocation == local'.mode = "retry" /\ now' # now

StarveKey(v) == Key(Src, local.stage, v)

IsDue(v) == v \in GetDueRetryIds(download_state, Src, local.stage, now)

\* the other error records that are not newer than the record of v
Ahead(ds, v) ==
    {w \in DueIds \ {v} :
        /\ StarveKey(w) \in DOMAIN ds
        /\ ds[StarveKey(w)].status = "error"
        /\ ds[StarveKey(w)].updated_at <= ds[StarveKey(v)].updated_at}

\* the taken records are re-classified with a fresh update time, and a due
\* record left out by the limit has limit records fewer ahead of it
TakenAreReclassified ==
    /\ \A v \in local'.targets :
          /\ IsDue(v)
          /\ download_state'[StarveKey(v)].updated_at = now
          /\ download_state'[StarveKey(v)].last_attempt_at = now
    /\ \A v \in DueIds \ local'.targets :
          IsDue(v) => /\ Cardinality(local'.targets) = StarveLimit
                      /\ local'.targets \subseteq Ahead(download_state, v)
                      /\ Ahead(download_state', v)
                            = Ahead(download_state, v) \ local'.targets

\* C38 as stated: no due retry is starved. Every invocation of a stage takes
\* the oldest due records up to the limit and re-classifies them with a fresh
\* update time, so repeated invocations reach every due record
C38_NoDueRetryStarved ==
    /\ [][IsRetryInvocation => TakenAreReclassified]_vars
    /\ \A v \in DueIds : IsDue(v) ~> ~IsDue(v)

\* C38 amended: the same, except that a media invocation that finds no ffprobe
\* takes the due media records as targets but re-classifies none of them;
\* every due record is reached once ffprobe is found
C38_NoDueRetryStarvedWithProbe ==
    /\ [][IsRetryInvocation
            => IF local'.stage = "media" /\ ~local'.ffprobe
               THEN /\ download_state' = download_state
                    /\ \A v \in local'.targets : IsDue(v)
               ELSE TakenAreReclassified]_vars
    /\ \A v \in DueIds : IsDue(v) ~> ~IsDue(v)

C38_Witness ==
    /\ local.mode = "retry"
    /\ local.ffprobe
    /\ Cardinality(local.targets) = StarveLimit
    /\ \E v \in DueIds \ local.targets : IsDue(v)
    /\ \E w \in local.targets :
          /\ download_state[StarveKey(w)].status = "error"
          /\ download_state[StarveKey(w)].retry_count = 2

\* ---------------------------------------------------------------- C39
\* two processes run sync_source on the same store; the statements of one
\* process between two commits are one step
Procs == {1, 2}

TwoStages == {"media", "subs"}

MaxTwoRuns == 3

TwoLocal == [run_id |-> Null, stage |-> "none", result |-> "none"]

InitTwo ==
    /\ now = 0
    /\ media_archive = NoArchive
    /\ subs_archive = NoArchive
    /\ media_files = [v \in VideoIds |-> "none"]
    /\ sub_files = {}
    /\ meta_files = {}
    /\ download_state = EmptyFn
    /\ download_runs = <<>>
    /\ backfill_state = EmptyFn
    /\ videos = EmptyFn
    /\ remote_len = MaxId
    /\ dependents = {}
    /\ urls_file = {}
    /\ pc = [p \in Procs |-> "idle"]
    /\ local = [p \in Procs |-> TwoLocal]
    /\ anomalies = 0

TwoUnchanged ==
    UNCHANGED <<files, download_state, backfill_state, videos, remote_len, dependents,
                urls_file>>

\* process p enters sync_source: the recovery pass of the three stages
TwoEnter(p) ==
    /\ pc[p] = "idle"
    /\ Len(download_runs) < MaxTwoRuns
    /\ download_runs' = RecoverAllStages(download_runs, Src, now)
    /\ pc' = [pc EXCEPT ![p] = "start"]
    /\ local' = [local EXCEPT ![p] = [TwoLocal EXCEPT !.result = "recovered"]]
    /\ UNCHANGED <<now, anomalies>>
    /\ TwoUnchanged

\* process p begins the run of a stage and commits
TwoBegin(p) ==
    /\ pc[p] = "start"
    /\ \E stage \in TwoStages :
          /\ download_runs' = BeginDownloadRun(download_runs, Src, stage, Null, now)
          /\ local' = [local EXCEPT ![p] = [run_id |-> Some(Len(download_runs) + 1),
                                             stage |-> stage, result |-> "running"]]
    /\ pc' = [pc EXCEPT ![p] = "call"]
    /\ now' = now + CallSeconds
    /\ UNCHANGED anomalies
    /\ TwoUnchanged

\* process p finishes its run and returns
TwoFinish(p) ==
    /\ pc[p] = "call"
    /\ \E code \in {0, 1} :
          download_runs' = FinishDownloadRun(
              download_runs, Val(local[p].run_id), IF code = 0 THEN "success" ELSE "error",
              now, code, 1 - code, code,
              IF code = 0 THEN Null ELSE Some("command exit code"))
    /\ pc' = [pc EXCEPT ![p] = "idle"]
    /\ local' = [local EXCEPT ![p] = [TwoLocal EXCEPT !.result = "returned"]]
    /\ UNCHANGED <<now, anomalies>>
    /\ TwoUnchanged

\* process p dies
TwoCrash(p) ==
    /\ pc[p] # "idle"
    /\ Spend(1)
    /\ pc' = [pc EXCEPT ![p] = "idle"]
    /\ local' = [local EXCEPT ![p] = [TwoLocal EXCEPT !.result = "crashed"]]
    /\ UNCHANGED <<now, download_runs>>
    /\ TwoUnchanged

NextTwo ==
    \E p \in Procs :
       \/ TwoEnter(p)
       \/ TwoBegin(p)
       \/ TwoFinish(p)
       \/ TwoCrash(p)

SpecTwo == InitTwo /\ [][NextTwo]_vars

\* the run was begun by a process that is still executing
InFlight(r) == \E p \in Procs : pc[p] = "call" /\ local[p].run_id = Some(r)

\* this step is the finish of run r by the process that began it
OwnerFinishes(r) ==
    \E p \in Procs : /\ pc[p] = "call" /\ local[p].run_id = Some(r)
                     /\ pc'[p] = "idle" /\ local'[p].result = "returned"

IsRecoveryStep == \E p \in Procs : pc[p] = "idle" /\ pc'[p] = "start"

ClosedByRecovery(row) ==
    /\ row.status = "error"
    /\ row.exit_code = Some(InterruptedExitCode)
    /\ row.error_message = Some("interrupted previous run")

\* every other process is idle when the recovery pass runs
SingleWriter == \A p \in Procs : pc[p] = "idle"

\* the recovery pass closes every running run of the source
RecoveryClosesRunning ==
    \A r \in DOMAIN download_runs :
       download_runs[r].status = "running" => ClosedByRecovery(download_runs'[r])

\* C39 as stated: when two invocations interleave, the recovery pass of one
\* never closes the in-flight run of the other, and a run closed by recovery
\* is never overwritten afterwards by a finish
C39_RecoverySparesInFlightRuns ==
    /\ [][IsRecoveryStep
            => \A r \in DOMAIN download_runs :
                  InFlight(r) => download_runs'[r] = download_runs[r]]_vars
    /\ [][\A r \in DOMAIN download_runs :
             ClosedByRecovery(download_runs[r])
                => download_runs'[r] = download_runs[r]]_vars

\* C39 amended: the recovery pass closes every running run of the source; it
\* spares in-flight runs only when no other process is executing, and only a
\* recovered run whose owner is dead is never overwritten
C39_RecoveryNeedsSingleWriter ==
    /\ [][IsRecoveryStep => RecoveryClosesRunning]_vars
    /\ [][(IsRecoveryStep /\ SingleWriter)
            => \A r \in DOMAIN download_runs : ~InFlight(r)]_vars
    /\ [][\A r \in DOMAIN download_runs :
             (ClosedByRecovery(download_runs[r]) /\ ~InFlight(r))
                => download_runs'[r] = download_runs[r]]_vars
    /\ [][\A r \in DOMAIN download_runs :
             (ClosedByRecovery(download_runs[r]) /\ download_runs'[r] # download_runs[r])
                => OwnerFinishes(r)]_vars

C39_Witness ==
    \E r \in DOMAIN download_runs :
       /\ ClosedByRecovery(download_runs[r])
       /\ InFlight(r)
       /\ \E q \in Procs : pc[q] = "start" /\ local[q].result = "recovered"

====
